---- MODULE Spec2Model ----
(***************************************************************************)
(* Authentication and authorization core of the go-backend service:        *)
(* user store and login (UserService), one-time codes (TwoFactorService,   *)
(* in its two storage variants), sessions (SessionService), the bearer     *)
(* token codec (JWTService) and the role checks of the middleware.         *)
(*                                                                         *)
(* Time is a natural number of ticks.  Every duration of the code is given *)
(* in ticks by a definition that names the source line it comes from.      *)
(* A method that makes one store statement is one atomic action; a method  *)
(* that makes several runs statement by statement in a request worker, so  *)
(* that the statements of concurrent calls interleave.                     *)
(***************************************************************************)
EXTENDS Integers, Sequences, FiniteSets, TLC

VARIABLES
    now,                \* wall clock (time.Now()), in ticks
    variant,            \* which TwoFactorService is built in: "table" or "column"
    users,              \* users table: sequence of rows, ID = index
    emailVerifications, \* email_verifications table: sequence of rows, ID = index
    ret,                \* what the last service call returned to its caller
    workers,            \* local state of each call in flight, per request worker
    userSessions,       \* user_sessions table: sequence of rows, token = index
    revoked,            \* history: the sessions InvalidateUserSessions was called over
    failedLogins,       \* history: consecutive Login calls rejected for a wrong password
    twoFactorAuths,     \* two_factor_auths table: one row per user ID that has one
    jwtExpiry,          \* JWTService.expiry (cfg.JWT.Expiry), in ticks
    wire,               \* the token string a client presents
    request,            \* the request a route guard or role check is deciding
    tokenBuckets,       \* the TokenBucket objects allocated so far, pointer = index
    buckets,            \* RateLimiter: the map from key to *TokenBucket
    clientRequests,     \* RateLimitMiddleware: the map from client IP to request times
    admitted            \* history: per key and tick, the requests a rate limiter let through

vars == <<now, variant, users, emailVerifications, ret, workers,
          userSessions, revoked, failedLogins, twoFactorAuths, jwtExpiry, wire, request,
          tokenBuckets, buckets, clientRequests, admitted>>

\* the state of the rate limiters
LimiterVars == <<tokenBuckets, buckets, clientRequests, admitted>>

\* what the actions of one component leave alone
OTPFrame == <<userSessions, revoked, failedLogins, twoFactorAuths, jwtExpiry, wire, request, LimiterVars>>
SessionFrame == <<variant, users, emailVerifications, failedLogins, twoFactorAuths,
                  jwtExpiry, wire, request, LimiterVars>>
UserFrame == <<variant, emailVerifications, userSessions, revoked, jwtExpiry, wire,
               request, LimiterVars>>
JWTFrame == <<variant, users, emailVerifications, workers, userSessions, revoked, failedLogins,
              twoFactorAuths, request, LimiterVars>>
RBACFrame == <<now, variant, users, emailVerifications, workers, userSessions, revoked,
               failedLogins, twoFactorAuths, jwtExpiry, wire, LimiterVars>>
LimiterFrame == <<variant, users, emailVerifications, userSessions, revoked, failedLogins,
                  twoFactorAuths, jwtExpiry, wire, request>>

----------------------------------------------------------------------------
(* Bounds of the model *)

MaxTime == 2            \* the clock stops advancing here
MaxOTPValue == 1        \* generateOTP draws n in 0..MaxOTPValue instead of 0..10^6-1
MaxFailedAttempts == 2  \* cap of failed_login_attempts in the guards
NumWorkers == 2         \* concurrent VerifyOTP calls in SpecOTPRace
MaxSessions == 2        \* rows the user_sessions table may hold
MaxSessionCalls == 1    \* ValidateSession and RefreshSession calls in flight at a time
MaxExpiry == 1          \* largest configured token lifetime (cfg.JWT.Expiry), in ticks
MaxLoginAttempts == 2   \* maxAttempts of the lockout rule
LockDuration == 1       \* lockDuration of the lockout rule, in ticks
MaxUsers == 2           \* rows the users table may hold
MaxUserCalls == 2       \* UserService calls in flight at a time
MaxFailedLogins == 3    \* cap of the wrong-password history in the guards
RequestsLeft == 2       \* requests the rate limit admits from the client in the first minute
GuardRequestsLeft == 1  \* the same, where every route and header is tried behind the limit
BurstSize == 2          \* config.BurstSize: the capacity of a rate limiter bucket
RefillRate == 1         \* time.Minute / config.RequestsPerMinute, in ticks

(* Program constants *)

OTPLength == 6          \* generateOTP(6)
SessionTTL == 1         \* 24 * time.Hour: one tick of the session clock is 24 hours
OTPTTL == 1             \* 10 * time.Minute: one tick of the OTP clock is 10 minutes
RateLimit == 100        \* len(clientRequests[clientIP]) >= 100
RateWindow == 1         \* time.Minute: one tick of the rate limit clock is one minute

Nil == -1               \* a NULL time column / nil *time.Time

Times == 0..MaxTime
UserIDs == {1, 2}

----------------------------------------------------------------------------
(* models.Role *)

RoleAdmin == "admin"
RoleModerator == "moderator"
RoleUser == "user"
Roles == {RoleAdmin, RoleModerator, RoleUser}

----------------------------------------------------------------------------
(* Password hashing: bcrypt.GenerateFromPassword / CompareHashAndPassword.   *)
(* A hash is a tagged value that is never a plaintext; a stored plaintext is *)
(* no valid hash and compares unequal to every password.                     *)

Passwords == {"admin123", "pw2"}

GenerateFromPassword(p) == <<"$2a$", p>>

\* a submitted string written to the password column as it is
Plaintext(p) == <<p>>

IsBcryptHash(stored) == Len(stored) = 2 /\ stored[1] = "$2a$"

CompareHashAndPassword(stored, p) == IsBcryptHash(stored) /\ stored = GenerateFromPassword(p)

----------------------------------------------------------------------------
(* models.User rows *)

NewUser(email, username, password, role) ==
    [email |-> email, username |-> username, password |-> password, role |-> role,
     isActive |-> TRUE, failedLoginAttempts |-> 0, accountLockedUntil |-> Nil,
     phoneNumber |-> "", twoFactorEnabled |-> FALSE,
     twoFactorCode |-> <<>>, twoFactorMethod |-> "", twoFactorExpiresAt |-> Nil,
     lastLoginAt |-> Nil, lastLoginIP |-> "", passwordChangedAt |-> Nil,
     mustChangePassword |-> FALSE, deleted |-> FALSE]

\* User.BeforeCreate: hash a non-empty password, default the role
BeforeCreate(u) ==
    [u EXCEPT !.password = IF u.password # "" THEN GenerateFromPassword(u.password) ELSE u.password,
              !.role = IF u.role = "" THEN RoleUser ELSE u.role]

\* rows visible to queries (gorm soft delete)
LiveUser(id) == id \in DOMAIN users /\ ~users[id].deleted

----------------------------------------------------------------------------
(* TwoFactorService *)

TwoFactorMethodEmail == "email"
TwoFactorMethodSMS == "sms"
TwoFactorMethodTOTP == "totp"
TwoFactorMethods == {TwoFactorMethodEmail, TwoFactorMethodSMS, TwoFactorMethodTOTP}

RECURSIVE Pow10(_)
Pow10(k) == IF k = 0 THEN 1 ELSE 10 * Pow10(k - 1)

\* fmt.Sprintf("%0*d", length, n): the decimal digits of n, zero padded
FormatOTP(length, n) == [i \in 1..length |-> (n \div Pow10(length - i)) % 10]

\* generateOTP: the codes the random source can produce
GeneratedOTPs == {FormatOTP(OTPLength, n) : n \in 0..MaxOTPValue}

\* codes a caller may submit: the generated ones and a malformed short one
ProvidedOTPs == GeneratedOTPs \cup {<<>>}

NoRet == [op |-> "none"]

\* the verification types VerifyOTP looks for (table variant)
VerificationTypes(method) == IF method = TwoFactorMethodSMS THEN {"sms_otp"} ELSE {"otp"}

\* the query with "AND used_at IS NULL" left out
MatchingVerificationsIgnoringUsed(userID, providedOTP, method) ==
    {i \in DOMAIN emailVerifications :
        /\ ~emailVerifications[i].deleted
        /\ emailVerifications[i].userID = userID
        /\ emailVerifications[i].type \in VerificationTypes(method)
        /\ emailVerifications[i].code = providedOTP
        /\ emailVerifications[i].expiresAt > now}

\* WHERE user_id = ? AND type IN (?) AND code = ? AND expires_at > ? AND used_at IS NULL
MatchingVerifications(userID, providedOTP, method) ==
    {i \in DOMAIN emailVerifications :
        /\ ~emailVerifications[i].deleted
        /\ emailVerifications[i].userID = userID
        /\ emailVerifications[i].type \in VerificationTypes(method)
        /\ emailVerifications[i].code = providedOTP
        /\ emailVerifications[i].expiresAt > now
        /\ emailVerifications[i].usedAt = Nil}

\* Order("created_at DESC").First(...): newest row, lowest ID among equals
FirstNewest(S) ==
    CHOOSE i \in S : \A j \in S :
        \/ emailVerifications[i].createdAt > emailVerifications[j].createdAt
        \/ /\ emailVerifications[i].createdAt = emailVerifications[j].createdAt
           /\ i <= j

\* the check of the column variant on a loaded user row
ColumnOTPMatches(user, providedOTP, method) ==
    /\ user.twoFactorCode = providedOTP
    /\ user.twoFactorMethod = method
    /\ user.twoFactorExpiresAt # Nil
    /\ user.twoFactorExpiresAt > now

\* incrementFailedAttempts writing the constant 1 instead of the column plus one
incrementFailedAttemptsToOne(us, userID) ==
    [i \in DOMAIN us |->
        IF i = userID /\ ~us[i].deleted
        THEN [us[i] EXCEPT !.failedLoginAttempts = 1]
        ELSE us[i]]

\* UPDATE users SET failed_login_attempts = failed_login_attempts + 1 WHERE id = ?
incrementFailedAttempts(us, userID) ==
    [i \in DOMAIN us |->
        IF i = userID /\ ~us[i].deleted
        THEN [us[i] EXCEPT !.failedLoginAttempts = @ + 1]
        ELSE us[i]]

\* clearOTP (column variant)
clearOTP(us, userID) ==
    [i \in DOMAIN us |->
        IF i = userID /\ ~us[i].deleted
        THEN [us[i] EXCEPT !.twoFactorCode = <<>>, !.twoFactorExpiresAt = Nil]
        ELSE us[i]]

\* storeOTP (column variant)
storeOTP(us, userID, otp, method) ==
    [i \in DOMAIN us |->
        IF i = userID /\ ~us[i].deleted
        THEN [us[i] EXCEPT !.twoFactorCode = otp, !.twoFactorMethod = method,
                           !.twoFactorExpiresAt = now + OTPTTL]
        ELSE us[i]]

\* EmailVerification.MarkAsUsed, on the struct the query loaded
MarkAsUsed(row) == [row EXCEPT !.usedAt = now]

\* db.Save(&row): every column is written from the struct the caller holds; for a row
\* deleted since it was read the UPDATE matches nothing and Save falls through to an
\* upsert, which writes the row back as the struct has it
Save(table, id, row) == [table EXCEPT ![id] = row]

\* GenerateEmailOTP / GenerateSMSOTP never set Token: every OTP row carries ''
NewVerification(userID, type, otp) ==
    [userID |-> userID, type |-> type, token |-> "", code |-> otp, expiresAt |-> now + OTPTTL,
     usedAt |-> Nil, createdAt |-> now, deleted |-> FALSE]

\* the unique index on email_verifications.token; a soft-deleted row keeps its entry
TokenIndexClash(token) ==
    \E i \in DOMAIN emailVerifications : emailVerifications[i].token = token

GenerateRet(userID, method, otp) ==
    [op |-> "GenerateOTP", userID |-> userID, code |-> otp, method |-> method, ok |-> TRUE]

\* return "", err
GenerateFailed(userID, method) ==
    [op |-> "GenerateOTP", userID |-> userID, code |-> <<>>, method |-> method, ok |-> FALSE]

\* EnableTwoFactor of the single-table service: one UPDATE of the user row
EnableTwoFactorColumn(userID, method) ==
    /\ variant = "column"
    /\ users' = [i \in DOMAIN users |->
                    IF i = userID /\ ~users[i].deleted
                    THEN [users[i] EXCEPT !.twoFactorEnabled = TRUE, !.twoFactorMethod = method]
                    ELSE users[i]]
    /\ ret' = [op |-> "EnableTwoFactor", userID |-> userID, err |-> ""]
    /\ UNCHANGED <<now, variant, emailVerifications, workers>>
    /\ UNCHANGED OTPFrame

\* DisableTwoFactor of the single-table service: the stored code goes with the flag
DisableTwoFactorColumn(userID) ==
    /\ variant = "column"
    /\ users' = [i \in DOMAIN users |->
                    IF i = userID /\ ~users[i].deleted
                    THEN [users[i] EXCEPT !.twoFactorEnabled = FALSE, !.twoFactorMethod = "",
                                          !.twoFactorCode = <<>>, !.twoFactorExpiresAt = Nil]
                    ELSE users[i]]
    /\ ret' = [op |-> "DisableTwoFactor", userID |-> userID, err |-> ""]
    /\ UNCHANGED <<now, variant, emailVerifications, workers>>
    /\ UNCHANGED OTPFrame

VerifyRet(userID, providedOTP, method, ok) ==
    [op |-> "VerifyOTP", userID |-> userID, code |-> providedOTP, method |-> method,
     ok |-> ok]

\* ClearExpiredOTPs with the "sms_otp" type missing from the query
ClearExpiredOTPsEmailOnly ==
    /\ IF variant = "table"
       THEN /\ emailVerifications' =
                  [i \in DOMAIN emailVerifications |->
                      IF /\ emailVerifications[i].type \in {"otp"}
                         /\ emailVerifications[i].expiresAt < now
                      THEN [emailVerifications[i] EXCEPT !.deleted = TRUE]
                      ELSE emailVerifications[i]]
            /\ UNCHANGED users
       ELSE /\ users' =
                  [i \in DOMAIN users |->
                      IF /\ ~users[i].deleted
                         /\ users[i].twoFactorExpiresAt # Nil
                         /\ users[i].twoFactorExpiresAt < now
                      THEN [users[i] EXCEPT !.twoFactorCode = <<>>, !.twoFactorExpiresAt = Nil]
                      ELSE users[i]]
            /\ UNCHANGED emailVerifications
    /\ ret' = [op |-> "ClearExpiredOTPs"]
    /\ UNCHANGED <<now, variant, workers>>
    /\ UNCHANGED OTPFrame

\* ClearExpiredOTPs: the periodic sweep
ClearExpiredOTPs ==
    /\ IF variant = "table"
       THEN /\ emailVerifications' =
                  [i \in DOMAIN emailVerifications |->
                      IF /\ emailVerifications[i].type \in {"otp", "sms_otp"}
                         /\ emailVerifications[i].expiresAt < now
                      THEN [emailVerifications[i] EXCEPT !.deleted = TRUE]
                      ELSE emailVerifications[i]]
            /\ UNCHANGED users
       ELSE /\ users' =
                  [i \in DOMAIN users |->
                      IF /\ ~users[i].deleted
                         /\ users[i].twoFactorExpiresAt # Nil
                         /\ users[i].twoFactorExpiresAt < now
                      THEN [users[i] EXCEPT !.twoFactorCode = <<>>, !.twoFactorExpiresAt = Nil]
                      ELSE users[i]]
            /\ UNCHANGED emailVerifications
    /\ ret' = [op |-> "ClearExpiredOTPs"]
    /\ UNCHANGED <<now, variant, workers>>
    /\ UNCHANGED OTPFrame

\* the clock advances
Tick ==
    /\ now < MaxTime
    /\ now' = now + 1
    /\ UNCHANGED <<variant, users, emailVerifications, ret, workers>>
    /\ UNCHANGED OTPFrame

OTPMethodsInUse == {TwoFactorMethodEmail, TwoFactorMethodSMS}

\* the parts of the state a specification does not use
NoSessions == userSessions = <<>> /\ revoked = {}
NoLogins == failedLogins = <<>> /\ twoFactorAuths = <<>>
NoTokens == jwtExpiry = 0 /\ wire = <<>>
NoRequest == request = <<>>
NoLimiter == tokenBuckets = <<>> /\ buckets = <<>> /\ clientRequests = <<>> /\ admitted = <<>>
NoOTP == variant = "table" /\ emailVerifications = <<>> /\ workers = <<>>

\* two identities the users table holds when the service starts.  No operation of the
\* service writes phone_number, and its unique index admits one row with '': rows
\* beside the first are rows that came with a phone number of their own.
RegisteredUsers ==
    <<[BeforeCreate(NewUser("a@x.com", "alice", "pw1", "")) EXCEPT !.phoneNumber = "+15550001"],
      [BeforeCreate(NewUser("b@x.com", "bob", "pw2", "")) EXCEPT !.phoneNumber = "+15550002"]>>

----------------------------------------------------------------------------
(* VerifyOTP statement by statement, in NumWorkers concurrent request workers. *)
(* Each store statement (a query, an UPDATE, a Save) is one atomic step.       *)

Workers == 1..NumWorkers

IdleWorker ==
    [pc |-> "idle", userID |-> 0, code |-> <<>>, method |-> "", found |-> 0, row |-> <<>>,
     ok |-> FALSE]

\* GenerateEmailOTP / GenerateSMSOTP up to the store statement: generateOTP draws the
\* code, unless the random source fails; db.Create of the row, which the token index
\* may refuse (table variant), or storeOTP (column variant).  An SMS is only printed
\* and the call returns; an email, with its code stored, waits for the mail server.
GenerateOTP(w, userID, method) ==
    /\ method \in {TwoFactorMethodEmail, TwoFactorMethodSMS}
    /\ workers[w].pc = "idle"
    /\ \E otp \in GeneratedOTPs, drawn \in BOOLEAN :
        LET row == NewVerification(userID,
                       IF method = TwoFactorMethodSMS THEN "sms_otp" ELSE "otp", otp)
            stored == drawn /\ (variant = "column" \/ ~TokenIndexClash(row.token))
        IN /\ IF variant = "table"
              THEN /\ emailVerifications' =
                         IF stored THEN Append(emailVerifications, row) ELSE emailVerifications
                   /\ UNCHANGED users
              ELSE /\ users' = IF stored THEN storeOTP(users, userID, otp, method) ELSE users
                   /\ UNCHANGED emailVerifications
           /\ IF ~stored
              THEN /\ ret' = GenerateFailed(userID, method)
                   /\ UNCHANGED workers
              ELSE IF method = TwoFactorMethodSMS
              THEN /\ ret' = GenerateRet(userID, method, otp)
                   /\ UNCHANGED workers
              ELSE /\ workers' = [workers EXCEPT ![w] =
                          [IdleWorker EXCEPT !.pc = "send", !.userID = userID, !.code = otp,
                                             !.method = method]]
                   /\ UNCHANGED ret
    /\ UNCHANGED <<now, variant>>
    /\ UNCHANGED OTPFrame

\* GenerateEmailOTP, last statements: emailService.SendOTPEmail, which the mail server
\* may refuse with the code already stored; return otp, nil
SendOTPEmail(w) ==
    /\ workers[w].pc = "send"
    /\ \E sent \in BOOLEAN :
          ret' = IF sent THEN GenerateRet(workers[w].userID, workers[w].method, workers[w].code)
                 ELSE GenerateFailed(workers[w].userID, workers[w].method)
    /\ workers' = [workers EXCEPT ![w] = IdleWorker]
    /\ UNCHANGED <<now, variant, users, emailVerifications>>
    /\ UNCHANGED OTPFrame

\* a request worker enters VerifyOTP(userID, providedOTP, method)
Call(w, userID, providedOTP, method) ==
    /\ workers[w].pc = "idle"
    /\ workers' = [workers EXCEPT ![w] =
           [pc |-> "find", userID |-> userID, code |-> providedOTP, method |-> method,
            found |-> 0, row |-> <<>>, ok |-> FALSE]]
    /\ UNCHANGED <<now, variant, users, emailVerifications, ret>>
    /\ UNCHANGED OTPFrame

\* table variant: the query db.Where(...).Order(...).First(&verification), and
\* verification.MarkAsUsed() on the struct it filled
FindVerification(w) ==
    /\ variant = "table"
    /\ workers[w].pc = "find"
    /\ LET found == MatchingVerifications(workers[w].userID, workers[w].code, workers[w].method) IN
       workers' = [workers EXCEPT ![w] =
           IF found = {}
           THEN [@ EXCEPT !.pc = "incr"]
           ELSE [@ EXCEPT !.pc = "save", !.found = FirstNewest(found),
                          !.row = MarkAsUsed(emailVerifications[FirstNewest(found)])]]
    /\ UNCHANGED <<now, variant, users, emailVerifications, ret>>
    /\ UNCHANGED OTPFrame

\* table variant: db.Save(&verification); return true
SaveVerification(w) ==
    /\ workers[w].pc = "save"
    /\ emailVerifications' = Save(emailVerifications, workers[w].found, workers[w].row)
    /\ workers' = [workers EXCEPT ![w] = [@ EXCEPT !.pc = "done", !.ok = TRUE]]
    /\ UNCHANGED <<now, variant, users, ret>>
    /\ UNCHANGED OTPFrame

\* column variant: db.First(&user, userID) and the comparison on the loaded row
LoadUser(w) ==
    /\ variant = "column"
    /\ workers[w].pc = "find"
    /\ workers' = [workers EXCEPT ![w] =
           IF ~LiveUser(workers[w].userID)
           THEN [@ EXCEPT !.pc = "done"]
           ELSE IF ColumnOTPMatches(users[workers[w].userID], workers[w].code, workers[w].method)
           THEN [@ EXCEPT !.pc = "clear"]
           ELSE [@ EXCEPT !.pc = "incr"]]
    /\ UNCHANGED <<now, variant, users, emailVerifications, ret>>
    /\ UNCHANGED OTPFrame

\* column variant: clearOTP(userID); return true
ClearOTP(w) ==
    /\ workers[w].pc = "clear"
    /\ users' = clearOTP(users, workers[w].userID)
    /\ workers' = [workers EXCEPT ![w] = [@ EXCEPT !.pc = "done", !.ok = TRUE]]
    /\ UNCHANGED <<now, variant, emailVerifications, ret>>
    /\ UNCHANGED OTPFrame

\* the increment done as a write of one more than the count read when the store was
\* set up
IncrementFailedFromStaleRead(w) ==
    /\ workers[w].pc = "incr"
    /\ users' = [users EXCEPT ![workers[w].userID].failedLoginAttempts =
                     RegisteredUsers[workers[w].userID].failedLoginAttempts + 1]
    /\ workers' = [workers EXCEPT ![w] = [@ EXCEPT !.pc = "done"]]
    /\ UNCHANGED <<now, variant, emailVerifications, ret>>
    /\ UNCHANGED OTPFrame

\* both variants: incrementFailedAttempts(userID); return false
IncrementFailed(w) ==
    /\ workers[w].pc = "incr"
    /\ users' = incrementFailedAttempts(users, workers[w].userID)
    /\ workers' = [workers EXCEPT ![w] = [@ EXCEPT !.pc = "done"]]
    /\ UNCHANGED <<now, variant, emailVerifications, ret>>
    /\ UNCHANGED OTPFrame

\* VerifyOTP returns to its caller; the worker takes the next request
ReturnVerify(w) ==
    /\ workers[w].pc = "done"
    /\ ret' = VerifyRet(workers[w].userID, workers[w].code, workers[w].method, workers[w].ok)
    /\ workers' = [workers EXCEPT ![w] = IdleWorker]
    /\ UNCHANGED <<now, variant, users, emailVerifications>>
    /\ UNCHANGED OTPFrame

\* the VerifyOTP calls for the identity that have not returned yet
CallsInFlight(u) ==
    {w \in Workers : workers[w].pc \notin {"idle", "send"} /\ workers[w].userID = u}

InitOTP ==
    /\ now = 0
    /\ variant \in {"table", "column"}
    /\ users = RegisteredUsers
    /\ emailVerifications = <<>>
    /\ ret = NoRet
    /\ workers = [w \in Workers |-> IdleWorker]
    /\ NoSessions /\ NoLogins /\ NoTokens /\ NoRequest
    /\ NoLimiter

\* the identity whose codes this specification follows; the row of the other
\* identity is in the table and stays as it is
OTPUsers == {1}

\* a call is taken while the failed-attempt counter it may raise is below its cap
NextOTP ==
    \/ \E u \in OTPUsers, m \in OTPMethodsInUse : EnableTwoFactorColumn(u, m)
    \/ \E u \in OTPUsers : DisableTwoFactorColumn(u)
    \/ \E w \in Workers :
          \/ \E u \in OTPUsers, m \in OTPMethodsInUse : GenerateOTP(w, u, m)
          \/ SendOTPEmail(w)
          \/ \E u \in OTPUsers, c \in ProvidedOTPs, m \in OTPMethodsInUse :
                /\ users[u].failedLoginAttempts + Cardinality(CallsInFlight(u)) < MaxFailedAttempts
                /\ Call(w, u, c, m)
          \/ FindVerification(w)
          \/ SaveVerification(w)
          \/ LoadUser(w)
          \/ ClearOTP(w)
          \/ IncrementFailed(w)
          \/ ReturnVerify(w)
    \/ ClearExpiredOTPs
    \/ Tick

SpecOTP == InitOTP /\ [][NextOTP]_vars

\* a record the verification check may accept: never consumed, not yet expired
FreshTableRecord(i, userID, providedOTP, method) ==
    /\ ~emailVerifications[i].deleted
    /\ emailVerifications[i].userID = userID
    /\ emailVerifications[i].type \in VerificationTypes(method)
    /\ emailVerifications[i].code = providedOTP
    /\ emailVerifications[i].usedAt = Nil
    /\ now < emailVerifications[i].expiresAt

FreshColumnRecord(userID, providedOTP, method) ==
    /\ users[userID].twoFactorCode = providedOTP
    /\ users[userID].twoFactorMethod = method
    /\ users[userID].twoFactorExpiresAt # Nil
    /\ now < users[userID].twoFactorExpiresAt

\* C2: whatever issue, verify, sweep and clock steps came before, a VerifyOTP call
\* returns true only when its query found a record that, at that moment, had never
\* been consumed and was not past its expiry.  A record stays consumed or expired
\* once it is, so a call made after that never returns true, even when the submitted
\* code equals the stored one.
C2_UsedOrExpiredNeverVerifies ==
    [][\A w \in Workers :
          /\ (FindVerification(w) /\ workers'[w].pc = "save") =>
                FreshTableRecord(workers'[w].found, workers[w].userID, workers[w].code,
                                 workers[w].method)
          /\ (LoadUser(w) /\ workers'[w].pc = "clear") =>
                FreshColumnRecord(workers[w].userID, workers[w].code, workers[w].method)
          /\ (~workers[w].ok /\ workers'[w].ok) => workers[w].pc \in {"save", "clear"}
          /\ (ReturnVerify(w) /\ ret'.ok) => workers[w].ok]_vars

\* C2 witness: VerifyOTP has just returned false for a code that equals the code of
\* an already consumed record of that identity and method
C2_Witness ==
    /\ ret.op = "VerifyOTP"
    /\ ~ret.ok
    /\ \E i \in DOMAIN emailVerifications :
          /\ emailVerifications[i].userID = ret.userID
          /\ emailVerifications[i].type \in VerificationTypes(ret.method)
          /\ emailVerifications[i].code = ret.code
          /\ emailVerifications[i].usedAt # Nil
          /\ ~emailVerifications[i].deleted

\* the store holds a record the verification check may accept for this call
FreshRecordExists(userID, providedOTP, method) ==
    IF variant = "table"
    THEN \E i \in DOMAIN emailVerifications : FreshTableRecord(i, userID, providedOTP, method)
    ELSE FreshColumnRecord(userID, providedOTP, method)

\* C14: a VerifyOTP call whose query finds no matching, unused, unexpired code of the
\* identity goes on to the increment and to nothing else: it consumes no record, adds
\* exactly one to the failed-attempt counter of that identity and returns false.
C14_FailedVerifyCountsOnce ==
    [][\A w \in Workers :
          /\ ((FindVerification(w) \/ LoadUser(w))
              /\ ~FreshRecordExists(workers[w].userID, workers[w].code, workers[w].method)) =>
                 workers'[w].pc = "incr"
          /\ (workers[w].pc = "incr" /\ workers'[w] # workers[w]) =>
                 /\ workers'[w].pc = "done"
                 /\ ~workers'[w].ok
                 /\ emailVerifications' = emailVerifications
                 /\ users'[workers[w].userID].twoFactorCode = users[workers[w].userID].twoFactorCode
                 /\ users'[workers[w].userID].twoFactorExpiresAt =
                       users[workers[w].userID].twoFactorExpiresAt
                 /\ users'[workers[w].userID].failedLoginAttempts =
                       users[workers[w].userID].failedLoginAttempts + 1
          /\ (ReturnVerify(w) /\ ~workers[w].ok) => ~ret'.ok]_vars

\* C14 witness: VerifyOTP has just returned false, for the second time for this
\* identity, for a code whose record is unused and past its expiry
C14_Witness ==
    /\ ret.op = "VerifyOTP"
    /\ ~ret.ok
    /\ users[ret.userID].failedLoginAttempts = 2
    /\ IF variant = "table"
       THEN \E i \in DOMAIN emailVerifications :
               /\ emailVerifications[i].userID = ret.userID
               /\ emailVerifications[i].type \in VerificationTypes(ret.method)
               /\ emailVerifications[i].code = ret.code
               /\ emailVerifications[i].usedAt = Nil
               /\ emailVerifications[i].expiresAt <= now
       ELSE /\ users[ret.userID].twoFactorCode = ret.code
            /\ users[ret.userID].twoFactorMethod = ret.method
            /\ users[ret.userID].twoFactorExpiresAt # Nil
            /\ users[ret.userID].twoFactorExpiresAt <= now

\* C15: a VerifyOTP call that returns true has consumed the matched record and left
\* the failed-attempt counter of the identity at 0.
C15_SuccessResetsCounter ==
    [][\A w \in Workers :
          /\ (SaveVerification(w) \/ ClearOTP(w)) =>
                IF variant = "table"
                THEN emailVerifications'[workers[w].found].usedAt # Nil
                ELSE users'[workers[w].userID].twoFactorExpiresAt = Nil
          /\ (ReturnVerify(w) /\ ret'.ok) => users'[ret'.userID].failedLoginAttempts = 0]_vars

\* an OTP record still in the store
StoredOTPRecords == {i \in DOMAIN emailVerifications : ~emailVerifications[i].deleted}

\* C16 as amended: after ClearExpiredOTPs no OTP record remains in the store whose
\* expiry time is before the time of the sweep; every other record, a used one that
\* has not expired included, stays as it was.
C16_SweepRemovesExpired ==
    [][ClearExpiredOTPs =>
        /\ \A i \in DOMAIN emailVerifications' :
              ~emailVerifications'[i].deleted => ~(emailVerifications'[i].expiresAt < now)
        /\ \A i \in StoredOTPRecords :
              ~(emailVerifications[i].expiresAt < now) =>
                  emailVerifications'[i] = emailVerifications[i]
        /\ \A u \in DOMAIN users' :
              /\ users'[u].twoFactorExpiresAt # Nil => ~(users'[u].twoFactorExpiresAt < now)
              /\ (users[u].twoFactorExpiresAt # Nil /\ ~(users[u].twoFactorExpiresAt < now)) =>
                    users'[u] = users[u]]_vars

\* C16 as stated: after ClearExpiredOTPs no OTP record remains in the store that is
\* past its expiry or has been used
C16_SweepRemovesExpiredAndUsed ==
    [][ClearExpiredOTPs =>
        /\ \A i \in DOMAIN emailVerifications' :
              ~emailVerifications'[i].deleted =>
                  /\ ~(emailVerifications'[i].expiresAt < now)
                  /\ emailVerifications'[i].usedAt = Nil
        /\ \A u \in DOMAIN users' :
              users'[u].twoFactorExpiresAt # Nil => ~(users'[u].twoFactorExpiresAt < now)]_vars

\* C16 witness: the sweep has just run on a store that holds a record it removed, an
\* expired SMS code
C16_Witness ==
    /\ ret.op = "ClearExpiredOTPs"
    /\ \E i \in DOMAIN emailVerifications :
          /\ emailVerifications[i].deleted
          /\ emailVerifications[i].type = "sms_otp"
          /\ emailVerifications[i].expiresAt < now

----------------------------------------------------------------------------
(* Two VerifyOTP calls racing for one freshly issued code *)

\* the store right after one GenerateEmailOTP / GenerateSMSOTP call at time 0
InitOTPRace ==
    /\ now = 0
    /\ variant \in {"table", "column"}
    /\ \E u \in UserIDs, m \in OTPMethodsInUse, otp \in GeneratedOTPs :
        /\ ret = GenerateRet(u, m, otp)
        /\ IF variant = "table"
           THEN /\ users = RegisteredUsers
                /\ emailVerifications =
                      <<[userID |-> u, type |-> IF m = TwoFactorMethodSMS THEN "sms_otp" ELSE "otp",
                         token |-> "", code |-> otp, expiresAt |-> OTPTTL, usedAt |-> Nil,
                         createdAt |-> 0, deleted |-> FALSE]>>
           ELSE /\ users = [i \in DOMAIN RegisteredUsers |->
                              IF i = u
                              THEN [RegisteredUsers[i] EXCEPT !.twoFactorCode = otp,
                                       !.twoFactorMethod = m, !.twoFactorExpiresAt = OTPTTL]
                              ELSE RegisteredUsers[i]]
                /\ emailVerifications = <<>>
    /\ workers = [w \in Workers |-> IdleWorker]
    /\ NoSessions /\ NoLogins /\ NoTokens /\ NoRequest
    /\ NoLimiter

\* every worker serves one call; what it returned stays in its locals
NextOTPRace ==
    \E w \in Workers :
        \/ \E u \in UserIDs, c \in GeneratedOTPs, m \in OTPMethodsInUse : Call(w, u, c, m)
        \/ FindVerification(w)
        \/ SaveVerification(w)
        \/ LoadUser(w)
        \/ ClearOTP(w)
        \/ IncrementFailed(w)

SpecOTPRace == InitOTPRace /\ [][NextOTPRace]_vars

\* the calls that were made with the issued code for the issued identity and method
CorrectCalls ==
    {w \in Workers : /\ workers[w].pc # "idle"
                     /\ workers[w].userID = ret.userID
                     /\ workers[w].code = ret.code
                     /\ workers[w].method = ret.method}

\* C1: when two concurrent VerifyOTP calls for the identity, method and code of a
\* freshly issued, unexpired OTP have both returned, exactly one of them has
\* returned true and the other false.
C1_ExactlyOneConcurrentVerifySucceeds ==
    \A w1, w2 \in CorrectCalls :
        (w1 # w2 /\ workers[w1].pc = "done" /\ workers[w2].pc = "done")
            => (workers[w1].ok # workers[w2].ok)

\* the concurrent calls for identity u that have returned false
FailedCalls(u) ==
    {w \in Workers : workers[w].pc = "done" /\ ~workers[w].ok /\ workers[w].userID = u}

\* C24: under every interleaving of the concurrent VerifyOTP calls the failed-attempt
\* counter of each identity has gone up by exactly the number of calls for it that
\* have failed: N concurrent failures raise it by N.
C24_NoLostIncrement ==
    \A u \in UserIDs :
        users[u].failedLoginAttempts =
            RegisteredUsers[u].failedLoginAttempts + Cardinality(FailedCalls(u))

\* C24 witness: every one of the concurrent calls was for the same identity and has
\* failed
C24_Witness ==
    \E u \in UserIDs :
        /\ FailedCalls(u) = Workers
        /\ users[u].failedLoginAttempts = NumWorkers

----------------------------------------------------------------------------
(* SessionService *)

SessionTokens == 1..MaxSessions

\* the request workers that run SessionService calls of more than one statement
SessionWorkers == 1..MaxSessionCalls

NoSession == [userID |-> 0]

NewSession(userID) ==
    [userID |-> userID, isActive |-> TRUE, expiresAt |-> now + SessionTTL,
     updatedAt |-> now, deleted |-> FALSE]

\* rows visible to queries (gorm soft delete)
LiveSession(token) == token \in DOMAIN userSessions /\ ~userSessions[token].deleted

\* the query with "AND is_active = ?" left out
FindValidSessionIgnoringActive(token) ==
    /\ LiveSession(token)
    /\ userSessions[token].expiresAt > now

\* WHERE token = ? AND is_active = ? AND expires_at > ?
FindValidSession(token) ==
    /\ LiveSession(token)
    /\ userSessions[token].isActive
    /\ userSessions[token].expiresAt > now

\* UPDATE user_sessions SET is_active = false, updated_at = now WHERE <hit>
Deactivate(hit) ==
    [t \in DOMAIN userSessions |->
        IF hit[t] THEN [userSessions[t] EXCEPT !.isActive = FALSE, !.updatedAt = now]
        ELSE userSessions[t]]

\* WHERE user_id = ? AND is_active = ?
UserSessionsHit(userID) ==
    [t \in DOMAIN userSessions |->
        /\ LiveSession(t)
        /\ userSessions[t].userID = userID
        /\ userSessions[t].isActive]

CreateSession(userID) ==
    /\ Len(userSessions) < MaxSessions
    /\ userSessions' = Append(userSessions, NewSession(userID))
    /\ ret' = [op |-> "CreateSession", token |-> Len(userSessions) + 1, ok |-> TRUE]
    /\ UNCHANGED <<now, revoked, workers>>
    /\ UNCHANGED SessionFrame

\* a request worker that is in no SessionService call
NoSessionCall == [pc |-> "idle", token |-> 0, row |-> NoSession]

\* ValidateSession, first statement: the query.  No row: the call returns the error;
\* a row: the worker holds it as its local copy
ValidateSession(w, token) ==
    /\ workers[w].pc = "idle"
    /\ IF FindValidSession(token)
       THEN /\ workers' = [workers EXCEPT ![w] =
                              [pc |-> "save", token |-> token, row |-> userSessions[token]]]
            /\ UNCHANGED ret
       ELSE /\ ret' = [op |-> "ValidateSession", token |-> token, ok |-> FALSE,
                       session |-> NoSession]
            /\ UNCHANGED workers
    /\ UNCHANGED <<now, revoked, userSessions>>
    /\ UNCHANGED SessionFrame

\* ValidateSession, second statement: session.UpdatedAt = time.Now(); s.db.Save(&session)
\* writes every column of the local copy, and the call returns the copy
SaveSession(w) ==
    /\ workers[w].pc = "save"
    /\ LET session == [workers[w].row EXCEPT !.updatedAt = now] IN
          /\ userSessions' = Save(userSessions, workers[w].token, session)
          /\ ret' = [op |-> "ValidateSession", token |-> workers[w].token, ok |-> TRUE,
                     session |-> session]
    /\ workers' = [workers EXCEPT ![w] = NoSessionCall]
    /\ UNCHANGED <<now, revoked>>
    /\ UNCHANGED SessionFrame

\* RefreshSession with "AND is_active = ?" left out of the query
RefreshSessionAnyState(w, token) ==
    /\ workers[w].pc = "idle"
    /\ userSessions' =
          [t \in DOMAIN userSessions |->
              IF t = token /\ LiveSession(t)
              THEN [userSessions[t] EXCEPT !.expiresAt = now + SessionTTL, !.updatedAt = now]
              ELSE userSessions[t]]
    /\ workers' = [workers EXCEPT ![w] = [pc |-> "touch", token |-> token, row |-> NoSession]]
    /\ UNCHANGED <<now, revoked, ret>>
    /\ UNCHANGED SessionFrame

\* RefreshSession, first statement:
\* UPDATE ... SET expires_at = ?, updated_at = ? WHERE token = ? AND is_active = ?
RefreshSession(w, token) ==
    /\ workers[w].pc = "idle"
    /\ userSessions' =
          [t \in DOMAIN userSessions |->
              IF t = token /\ LiveSession(t) /\ userSessions[t].isActive
              THEN [userSessions[t] EXCEPT !.expiresAt = now + SessionTTL, !.updatedAt = now]
              ELSE userSessions[t]]
    /\ workers' = [workers EXCEPT ![w] = [pc |-> "touch", token |-> token, row |-> NoSession]]
    /\ UNCHANGED <<now, revoked, ret>>
    /\ UNCHANGED SessionFrame

\* RefreshSession, second statement, chained on the first:
\* UPDATE ... SET updated_at = ? WHERE token = ? AND is_active = ?
RefreshSessionUpdatedAt(w) ==
    /\ workers[w].pc = "touch"
    /\ userSessions' =
          [t \in DOMAIN userSessions |->
              IF t = workers[w].token /\ LiveSession(t) /\ userSessions[t].isActive
              THEN [userSessions[t] EXCEPT !.updatedAt = now]
              ELSE userSessions[t]]
    /\ ret' = [op |-> "RefreshSession", token |-> workers[w].token, ok |-> TRUE]
    /\ workers' = [workers EXCEPT ![w] = NoSessionCall]
    /\ UNCHANGED <<now, revoked>>
    /\ UNCHANGED SessionFrame

InvalidateSession(token) ==
    /\ userSessions' = Deactivate([t \in DOMAIN userSessions |-> t = token /\ LiveSession(t)])
    /\ ret' = [op |-> "InvalidateSession", token |-> token, ok |-> TRUE]
    /\ UNCHANGED <<now, revoked, workers>>
    /\ UNCHANGED SessionFrame

InvalidateUserSessions(userID) ==
    /\ userSessions' = Deactivate(UserSessionsHit(userID))
    /\ revoked' = revoked \cup {t \in DOMAIN userSessions : userSessions[t].userID = userID}
    /\ ret' = [op |-> "InvalidateUserSessions", token |-> 0, ok |-> TRUE]
    /\ UNCHANGED <<now, workers>>
    /\ UNCHANGED SessionFrame

\* InvalidateUserSessionsExcept with "AND token != ?" left out of the query
InvalidateUserSessionsExceptNone(userID, exceptToken) ==
    /\ userSessions' = Deactivate(UserSessionsHit(userID))
    /\ ret' = [op |-> "InvalidateUserSessionsExcept", token |-> exceptToken, ok |-> TRUE]
    /\ UNCHANGED <<now, revoked, workers>>
    /\ UNCHANGED SessionFrame

\* InvalidateUserSessionsExcept: WHERE user_id = ? AND token != ? AND is_active = ?
InvalidateUserSessionsExcept(userID, exceptToken) ==
    /\ userSessions' = Deactivate([t \in DOMAIN userSessions |->
                                      UserSessionsHit(userID)[t] /\ t # exceptToken])
    /\ ret' = [op |-> "InvalidateUserSessionsExcept", token |-> exceptToken, ok |-> TRUE]
    /\ UNCHANGED <<now, revoked, workers>>
    /\ UNCHANGED SessionFrame

\* CleanupExpiredSessions with AND in place of OR in the query
CleanupExpiredSessionsBoth ==
    /\ userSessions' =
          [t \in DOMAIN userSessions |->
              IF userSessions[t].expiresAt < now /\ ~userSessions[t].isActive
              THEN [userSessions[t] EXCEPT !.deleted = TRUE]
              ELSE userSessions[t]]
    /\ ret' = [op |-> "CleanupExpiredSessions", token |-> 0, ok |-> TRUE]
    /\ UNCHANGED <<now, revoked, workers>>
    /\ UNCHANGED SessionFrame

\* DELETE ... WHERE expires_at < ? OR is_active = ?
CleanupExpiredSessions ==
    /\ userSessions' =
          [t \in DOMAIN userSessions |->
              IF userSessions[t].expiresAt < now \/ ~userSessions[t].isActive
              THEN [userSessions[t] EXCEPT !.deleted = TRUE]
              ELSE userSessions[t]]
    /\ ret' = [op |-> "CleanupExpiredSessions", token |-> 0, ok |-> TRUE]
    /\ UNCHANGED <<now, revoked, workers>>
    /\ UNCHANGED SessionFrame

UpdateSessionActivity(token) ==
    /\ userSessions' =
          [t \in DOMAIN userSessions |->
              IF t = token /\ LiveSession(t) /\ userSessions[t].isActive
              THEN [userSessions[t] EXCEPT !.updatedAt = now]
              ELSE userSessions[t]]
    /\ ret' = [op |-> "UpdateSessionActivity", token |-> token, ok |-> TRUE]
    /\ UNCHANGED <<now, revoked, workers>>
    /\ UNCHANGED SessionFrame

InitSession ==
    /\ now = 0
    /\ users = RegisteredUsers
    /\ userSessions = <<>>
    /\ revoked = {}
    /\ ret = NoRet
    /\ variant = "table" /\ emailVerifications = <<>>
    /\ workers = [w \in SessionWorkers |-> NoSessionCall]
    /\ NoLogins /\ NoTokens /\ NoRequest
    /\ NoLimiter

NextSession ==
    \/ \E u \in UserIDs : CreateSession(u)
    \/ \E w \in SessionWorkers :
          \/ \E t \in SessionTokens : ValidateSession(w, t)
          \/ SaveSession(w)
          \/ \E t \in SessionTokens : RefreshSession(w, t)
          \/ RefreshSessionUpdatedAt(w)
    \/ \E t \in SessionTokens : InvalidateSession(t)
    \/ \E u \in UserIDs : InvalidateUserSessions(u)
    \/ \E u \in UserIDs, t \in SessionTokens : InvalidateUserSessionsExcept(u, t)
    \/ CleanupExpiredSessions
    \/ \E t \in SessionTokens : UpdateSessionActivity(t)
    \/ Tick

SpecSession == InitSession /\ [][NextSession]_vars

\* C5: ValidateSession(token) returns a session only if that session is active
\* and its expiry is after the current time when the call looks it up, and then it is
\* that session; for every other token (inactive whatever its expiry, expired, swept
\* or unknown) it returns an error and no session.
C5_ValidateOnlyActiveUnexpired ==
    [][\A w \in SessionWorkers :
          /\ \A t \in SessionTokens :
                ValidateSession(w, t) =>
                    IF workers'[w].pc = "save"
                    THEN /\ t \in DOMAIN userSessions
                         /\ userSessions[t].isActive
                         /\ now < userSessions[t].expiresAt
                         /\ workers'[w].token = t
                         /\ workers'[w].row = userSessions[t]
                    ELSE /\ ret'.op = "ValidateSession"
                         /\ ret'.token = t
                         /\ ~ret'.ok
                         /\ ret'.session = NoSession
          /\ SaveSession(w) =>
                /\ ret'.op = "ValidateSession"
                /\ ret'.ok
                /\ ret'.token = workers[w].token
                /\ ret'.session.userID = workers[w].row.userID
                /\ ret'.session.isActive
                /\ ret'.session.expiresAt = workers[w].row.expiresAt
          /\ (ret'.op = "ValidateSession" /\ ret'.ok /\ ret' # ret) =>
                workers[w].pc = "save" \/ \E w2 \in SessionWorkers : SaveSession(w2)]_vars

\* C5 witness: an inactive session whose expiry is still ahead has been refused
C5_Witness ==
    /\ ret.op = "ValidateSession"
    /\ ~ret.ok
    /\ ret.token \in DOMAIN userSessions
    /\ ~userSessions[ret.token].deleted
    /\ ~userSessions[ret.token].isActive
    /\ now < userSessions[ret.token].expiresAt

\* C6: once InvalidateUserSessions(I) has completed, no session that had been
\* created for identity I before that call is accepted by ValidateSession again: a
\* ValidateSession call that starts after it finds no such session.
C6_InvalidatedSessionsStayInvalid ==
    [][\A w \in SessionWorkers, t \in SessionTokens :
          (t \in revoked /\ ValidateSession(w, t)) => workers'[w].pc # "save"]_vars

\* C17: RefreshSession(token) sets the expiry of the named session to now + 24 hours
\* when that session is active, leaving its identity and its active flag and every
\* other session as they are; when the session is inactive or the token is unknown it
\* changes no session at all.
C17_RefreshSessionFrame ==
    [][\A w \in SessionWorkers :
          /\ \A token \in SessionTokens :
                RefreshSession(w, token) =>
                    IF LiveSession(token) /\ userSessions[token].isActive
                    THEN /\ userSessions'[token].expiresAt = now + SessionTTL
                         /\ userSessions'[token].userID = userSessions[token].userID
                         /\ userSessions'[token].isActive
                         /\ ~userSessions'[token].deleted
                         /\ \A t \in DOMAIN userSessions :
                               t # token => userSessions'[t] = userSessions[t]
                    ELSE userSessions' = userSessions
          /\ RefreshSessionUpdatedAt(w) =>
                LET token == workers[w].token IN
                IF LiveSession(token) /\ userSessions[token].isActive
                THEN userSessions' = [userSessions EXCEPT ![token].updatedAt = now]
                ELSE userSessions' = userSessions]_vars

\* C17 witness: RefreshSession has just moved the expiry of an active session, created
\* in an earlier tick, to now + 24 hours, next to an inactive session
C17_Witness ==
    /\ ret.op = "RefreshSession"
    /\ now > 0
    /\ LiveSession(ret.token)
    /\ userSessions[ret.token].isActive
    /\ userSessions[ret.token].expiresAt = now + SessionTTL
    /\ \E t \in DOMAIN userSessions : ~userSessions[t].isActive

\* C18: InvalidateUserSessionsExcept(I, keep) makes every active session of I other
\* than keep inactive and changes neither keep nor a session of another identity;
\* InvalidateSession(token) makes the named session inactive and changes no other.
C18_InvalidateFrame ==
    [][/\ \A u \in UserIDs, keep \in SessionTokens :
             InvalidateUserSessionsExcept(u, keep) =>
                 \A t \in DOMAIN userSessions :
                     /\ (/\ LiveSession(t)
                         /\ userSessions[t].userID = u
                         /\ t # keep
                         /\ userSessions[t].isActive) => ~userSessions'[t].isActive
                     /\ t = keep => userSessions'[t] = userSessions[t]
                     /\ userSessions[t].userID # u => userSessions'[t] = userSessions[t]
       /\ \A token \in SessionTokens :
             InvalidateSession(token) =>
                 \A t \in DOMAIN userSessions :
                     /\ (t = token /\ LiveSession(t)) => ~userSessions'[t].isActive
                     /\ t # token => userSessions'[t] = userSessions[t]]_vars

\* C18 witness: InvalidateUserSessionsExcept has just deactivated a session of the
\* identity whose kept session is still one ValidateSession accepts
C18_Witness ==
    /\ ret.op = "InvalidateUserSessionsExcept"
    /\ FindValidSession(ret.token)
    /\ \E t \in DOMAIN userSessions :
          /\ t # ret.token
          /\ userSessions[t].userID = userSessions[ret.token].userID
          /\ ~userSessions[t].isActive
          /\ userSessions[t].updatedAt = now

\* C19: CleanupExpiredSessions removes every session whose expiry is before the time
\* of the sweep and every inactive session, and leaves every session that is active
\* and not yet expired as it is: a session ValidateSession would accept before the
\* sweep is one it accepts after it.
C19_CleanupFrame ==
    [][CleanupExpiredSessions =>
          \A t \in DOMAIN userSessions :
              /\ (userSessions[t].expiresAt < now \/ ~userSessions[t].isActive) =>
                     userSessions'[t].deleted
              /\ (userSessions[t].isActive /\ userSessions[t].expiresAt > now) =>
                     userSessions'[t] = userSessions[t]
              /\ FindValidSession(t) => FindValidSession(t)']_vars

\* C19 witness: the sweep has just run; an inactive session whose expiry is still
\* ahead is gone and a valid session is still there
C19_Witness ==
    /\ ret.op = "CleanupExpiredSessions"
    /\ \E t \in DOMAIN userSessions :
          /\ userSessions[t].deleted
          /\ ~userSessions[t].isActive
          /\ userSessions[t].expiresAt > now
    /\ \E t \in DOMAIN userSessions : FindValidSession(t)

\* the expiry time of the session has passed: the row is one ValidateSession refuses
\* for "expires_at > now"
ExpiryPassed(t) == t \in DOMAIN userSessions /\ ~(userSessions[t].expiresAt > now)

\* C28: a session whose expiry time has passed is never accepted again: no step of
\* RefreshSession, UpdateSessionActivity or any other session operation turns a
\* session ValidateSession refuses as expired into one ValidateSession accepts.
C28_ExpiredNeverAccepted ==
    [][\A t \in SessionTokens : ExpiryPassed(t) => ~FindValidSession(t)']_vars

----------------------------------------------------------------------------
(* JWTService: utils/jwt.go over github.com/golang-jwt/jwt/v4.               *)
(* A token string is header.payload.signature.  The signature is modelled by *)
(* what it was computed from: the method, the key and the signed text.       *)

ServerSecret == "cfg.JWT.Secret"
OtherKey == "other key"
SigningKeys == {ServerSecret, OtherKey}

HMACMethods == {"HS256", "HS384", "HS512"}
SigningMethods == HMACMethods \cup {"RS256", "none"}

NoClaims == [userID |-> 0, email |-> "", username |-> "", role |-> "",
             exp |-> Nil, iat |-> Nil, nbf |-> Nil]

\* the empty signature part of an unsigned token
NoSignature == [method |-> "none", key |-> "", header |-> "", payload |-> NoClaims]

\* method.Sign(header.payload, key); the "none" method leaves the signature empty
Sign(alg, key, claims) ==
    IF alg = "none" THEN NoSignature
    ELSE [method |-> alg, key |-> key, header |-> alg, payload |-> claims]

\* jwt.NewWithClaims(method, claims) followed by SignedString(key)
SignedString(alg, key, claims) ==
    [alg |-> alg, claims |-> claims, signature |-> Sign(alg, key, claims)]

\* the claims GenerateToken and RefreshToken build
NewClaims(userID, email, username, role) ==
    [userID |-> userID, email |-> email, username |-> username, role |-> role,
     exp |-> now + jwtExpiry, iat |-> now, nbf |-> now]

\* GenerateToken with the Role field of the claims left unset
GenerateTokenRoleUnset(userID, user) ==
    SignedString("HS256", ServerSecret, NewClaims(userID, user.email, user.username, ""))

\* GenerateToken: always HS256 under the server secret
GenerateToken(userID, user) ==
    SignedString("HS256", ServerSecret, NewClaims(userID, user.email, user.username, user.role))

\* the key function ValidateToken passes to the parser: only HMAC methods get the key
KeyfuncAccepts(token) == token.alg \in HMACMethods

\* token.Method.Verify(header.payload, signature, j.secret), reached for HMAC methods only
SignatureValid(token) == token.signature = Sign(token.alg, ServerSecret, token.claims)

\* RegisteredClaims.Valid: each of exp, iat, nbf is checked only when present
ClaimsError(claims) ==
    IF claims.nbf # Nil /\ ~(now >= claims.nbf) THEN "token is not valid yet"
    ELSE IF claims.iat # Nil /\ ~(now >= claims.iat) THEN "token used before issued"
    ELSE IF claims.exp # Nil /\ ~(now < claims.exp) THEN "token is expired"
    ELSE ""

\* the error of jwt.ParseWithClaims as ValidateToken calls it ("" is nil)
ParseError(token) ==
    IF ~KeyfuncAccepts(token) THEN "unexpected signing method"
    ELSE IF ~SignatureValid(token) THEN "signature is invalid"
    ELSE ClaimsError(token.claims)

\* what ValidateToken returns for a token string
ValidateResult(token) ==
    IF ParseError(token) # ""
    THEN [err |-> ParseError(token), claims |-> NoClaims]
    ELSE [err |-> "", claims |-> token.claims]

\* RefreshToken reading the claims of the old token without validating it
RefreshResultUnvalidated(token) ==
    [err |-> "",
     token |-> SignedString("HS256", ServerSecret,
                   NewClaims(token.claims.userID, token.claims.email,
                             token.claims.username, token.claims.role))]

\* what RefreshToken returns: a fresh HS256 token with the identity claims of the old one
RefreshResult(token) ==
    IF ValidateResult(token).err # ""
    THEN [err |-> ValidateResult(token).err, token |-> <<>>]
    ELSE [err |-> "",
          token |-> SignedString("HS256", ServerSecret,
                        NewClaims(token.claims.userID, token.claims.email,
                                  token.claims.username, token.claims.role))]

\* the payloads a client may put into a token string it builds itself: the identity of
\* user 1 under either role, expires-at absent or at any tick, iat = nbf absent or tick 1
CraftedClaims ==
    {[userID |-> 1, email |-> RegisteredUsers[1].email, username |-> RegisteredUsers[1].username,
      role |-> r, exp |-> e, iat |-> n, nbf |-> n] :
        r \in {RoleUser, RoleAdmin}, e \in {Nil} \cup Times, n \in {Nil, 1}}

\* a client presents a token string: any method, either key, any payload.  Strings
\* signed with the server secret under another HMAC method than HS256 come from
\* another holder of that secret.
PresentToken(alg, key, claims) ==
    /\ wire' = SignedString(alg, key, claims)
    /\ ret' = [op |-> "PresentToken"]
    /\ UNCHANGED <<now, jwtExpiry>>
    /\ UNCHANGED JWTFrame

\* a client takes a token string and alters its payload, keeping the signature
TamperToken(role) ==
    /\ wire # <<>>
    /\ wire' = [wire EXCEPT !.claims.role = role]
    /\ ret' = [op |-> "TamperToken"]
    /\ UNCHANGED <<now, jwtExpiry>>
    /\ UNCHANGED JWTFrame

\* JWTService.GenerateToken(user); the client keeps the token
IssueToken(userID) ==
    /\ LiveUser(userID)
    /\ wire' = GenerateToken(userID, users[userID])
    /\ ret' = [op |-> "GenerateToken", err |-> "", token |-> wire', userID |-> userID]
    /\ UNCHANGED <<now, jwtExpiry>>
    /\ UNCHANGED JWTFrame

\* JWTService.ValidateToken with claim validation and signature check left out
ValidateTokenUnverified ==
    /\ wire # <<>>
    /\ ret' = [op |-> "ValidateToken", err |-> "", claims |-> wire.claims]
    /\ UNCHANGED <<now, jwtExpiry, wire>>
    /\ UNCHANGED JWTFrame

\* JWTService.ValidateToken(tokenString) on the token the client presents
ValidateToken ==
    /\ wire # <<>>
    /\ ret' = [op |-> "ValidateToken", err |-> ValidateResult(wire).err,
               claims |-> ValidateResult(wire).claims]
    /\ UNCHANGED <<now, jwtExpiry, wire>>
    /\ UNCHANGED JWTFrame

\* JWTService.RefreshToken(tokenString); the client keeps the new token
RefreshToken ==
    /\ wire # <<>>
    /\ ret' = [op |-> "RefreshToken", err |-> RefreshResult(wire).err,
               token |-> RefreshResult(wire).token, old |-> wire]
    /\ wire' = IF RefreshResult(wire).err = "" THEN RefreshResult(wire).token ELSE wire
    /\ UNCHANGED <<now, jwtExpiry>>
    /\ UNCHANGED JWTFrame

\* the clock advances between two calls of the token service
TickJWT ==
    /\ now < MaxTime
    /\ now' = now + 1
    /\ UNCHANGED <<jwtExpiry, wire, ret>>
    /\ UNCHANGED JWTFrame

\* the identities tokens are issued for: a plain user and an admin
TokenUsers == [RegisteredUsers EXCEPT ![2].role = RoleAdmin]

InitJWT ==
    /\ now = 0
    /\ users = TokenUsers
    /\ jwtExpiry \in 0..MaxExpiry
    /\ wire = <<>>
    /\ ret = NoRet
    /\ NoOTP /\ NoSessions /\ NoLogins /\ NoRequest
    /\ NoLimiter

NextJWT ==
    \/ \E u \in UserIDs : IssueToken(u)
    \/ \E alg \in SigningMethods, key \in SigningKeys, c \in CraftedClaims : PresentToken(alg, key, c)
    \/ \E r \in Roles : TamperToken(r)
    \/ ValidateToken
    \/ RefreshToken
    \/ TickJWT

SpecJWT == InitJWT /\ [][NextJWT]_vars

\* C10 as amended: ValidateToken accepts a token only if it is signed with the server
\* secret under an HMAC method (HS256, HS384 or HS512) and, when it carries an
\* expires-at, the current time is before it; a token whose expiry has passed (one
\* issued with TTL 0 included) or that advertises a non-HMAC or no signing method is
\* rejected with an error and yields no claims.
C10_ValidateTokenHMACAndExpiry ==
    [][ValidateToken =>
        /\ ret'.err = "" =>
              /\ wire.alg \in HMACMethods
              /\ wire.signature.key = ServerSecret
              /\ wire.signature.method = wire.alg
              /\ wire.signature.header = wire.alg
              /\ wire.signature.payload = wire.claims
              /\ wire.claims.exp # Nil => now < wire.claims.exp
              /\ ret'.claims = wire.claims
        /\ (\/ wire.claims.exp # Nil /\ now >= wire.claims.exp
            \/ wire.alg \notin HMACMethods) =>
              /\ ret'.err # ""
              /\ ret'.claims = NoClaims]_vars

\* C10 as stated: only HS256 tokens under the server secret with an expires-at in the
\* future are accepted
C10_ValidateTokenOnlyExpectedAlgorithm ==
    [][ValidateToken /\ ret'.err = "" =>
          /\ wire.alg = "HS256"
          /\ wire.signature = Sign("HS256", ServerSecret, wire.claims)
          /\ wire.claims.exp # Nil
          /\ now < wire.claims.exp]_vars

\* C10 witness: ValidateToken has just refused a token that GenerateToken issued with
\* TTL 0, whose expires-at is the current time
C10_Witness ==
    /\ ret.op = "ValidateToken"
    /\ ret.err = "token is expired"
    /\ jwtExpiry = 0
    /\ wire.alg = "HS256"
    /\ wire.signature = Sign("HS256", ServerSecret, wire.claims)
    /\ wire.claims.exp = now
    /\ wire.claims.iat = now

\* C11: with a positive TTL, ValidateToken on the token GenerateToken returned for an
\* identity, called before the token's expiry, succeeds and returns claims whose user
\* ID, email, username and role are those of the identity.
C11_TokenRoundTrip ==
    [][(/\ ValidateToken
        /\ ret.op = "GenerateToken"
        /\ wire = ret.token
        /\ jwtExpiry > 0
        /\ now < ret.token.claims.exp) =>
            /\ ret'.err = ""
            /\ ret'.claims.userID = ret.userID
            /\ ret'.claims.email = users[ret.userID].email
            /\ ret'.claims.username = users[ret.userID].username
            /\ ret'.claims.role = users[ret.userID].role]_vars

\* C11 witness: ValidateToken has just accepted the token GenerateToken issued for the
\* admin identity in this tick, and returned the admin role
C11_Witness ==
    /\ ret.op = "ValidateToken"
    /\ ret.err = ""
    /\ ret.claims.userID = 2
    /\ ret.claims.role = RoleAdmin
    /\ wire = GenerateToken(2, users[2])

\* the token is signed with the server secret under an HMAC method and is inside its
\* validity window at the current time
ValidNow(token) ==
    /\ token.alg \in HMACMethods
    /\ token.signature = [method |-> token.alg, key |-> ServerSecret, header |-> token.alg,
                          payload |-> token.claims]
    /\ token.claims.exp # Nil => now < token.claims.exp
    /\ token.claims.nbf # Nil => token.claims.nbf <= now
    /\ token.claims.iat # Nil => token.claims.iat <= now

\* C12: RefreshToken(t) succeeds only if t validates at the time of the call; the new
\* token is an HS256 token under the server secret with the user ID, email, username
\* and role of t and expires-at = now + the configured TTL; and t goes on validating
\* at every later time before its own expiry.
C12_RefreshToken ==
    /\ [][(RefreshToken /\ ret'.err = "") =>
            /\ ValidNow(wire)
            /\ ret'.token.alg = "HS256"
            /\ ret'.token.signature.key = ServerSecret
            /\ ret'.token.signature.payload = ret'.token.claims
            /\ ret'.token.claims.userID = wire.claims.userID
            /\ ret'.token.claims.email = wire.claims.email
            /\ ret'.token.claims.username = wire.claims.username
            /\ ret'.token.claims.role = wire.claims.role
            /\ ret'.token.claims.exp = now + jwtExpiry]_vars
    /\ []((/\ ret.op = "RefreshToken"
           /\ ret.err = ""
           /\ ret.old.claims.exp # Nil => now < ret.old.claims.exp) =>
              ValidateResult(ret.old).err = "")

\* C12 witness: a tick after a successful RefreshToken the old token, not yet expired,
\* is still one ValidateToken accepts
C12_Witness ==
    /\ ret.op = "RefreshToken"
    /\ ret.err = ""
    /\ ret.token.claims.iat < now
    /\ ret.old.claims.exp # Nil
    /\ now < ret.old.claims.exp
    /\ ValidateResult(ret.old).err = ""

----------------------------------------------------------------------------
(* UserService (services/audit_service.go, second part), database.Seed and   *)
(* the two methods of TwoFactorService that switch two-factor on and off.    *)
(* A method runs statement by statement in a request worker: its first       *)
(* statement is the action named after it, each later statement an action of *)
(* its own, and the last one returns.  The users table keeps its unique      *)
(* indexes on email, username and phone_number over all rows, soft-deleted   *)
(* ones included.                                                            *)

Emails == {"admin@example.com", "user@example.com"}
Usernames == {"admin", "user"}

\* the request workers that run UserService calls
UserWorkers == 1..MaxUserCalls

\* First(): the row with the lowest primary key among those the query matches, 0 for none
FirstUser(S) == IF S = {} THEN 0 ELSE CHOOSE i \in S : \A j \in S : i <= j

LiveUsers == {i \in DOMAIN users : ~users[i].deleted}

\* User.CheckPassword
CheckPassword(user, password) == CompareHashAndPassword(user.password, password)

\* User.ToResponse
ToResponse(id, user) ==
    [id |-> id, email |-> user.email, username |-> user.username, role |-> user.role,
     isActive |-> user.isActive, twoFactorEnabled |-> user.twoFactorEnabled]

NoUser == [id |-> 0]

\* a request worker that is in no call
NoUserCall == [pc |-> "idle", op |-> "", id |-> 0, req |-> <<>>, row |-> NoUser, caller |-> <<>>]

\* ret while the call that started last has not returned
Pending == [op |-> "pending"]

\* the gin context of the request the call is made for, <<>> for a call made directly
Caller == IF request = <<>> THEN <<>> ELSE request.context

\* worker w goes on in its call: the statement at pc is next
Begin(w, op, pc, id, req, row) ==
    /\ workers[w].pc = "idle"
    /\ workers' = [workers EXCEPT ![w] = [pc |-> pc, op |-> op, id |-> id, req |-> req,
                                          row |-> row, caller |-> Caller]]
    /\ ret' = Pending

\* worker w returns result from its call
Finish(w, result) ==
    /\ workers' = [workers EXCEPT ![w] = NoUserCall]
    /\ ret' = result

\* worker w is at statement pc of a call of op
At(w, op, pc) == workers[w].op = op /\ workers[w].pc = pc

\* history of the lockout rule: the consecutive wrong-password logins of an identity
\* and, once there are MaxLoginAttempts of them, the time the lock they call for ends
NoFailures == [n |-> 0, lockEnds |-> Nil]

\* User.IncrementFailedAttempts, then LockAccount(LockDuration) if ShouldLockAccount
OneMoreFailure(h) ==
    [n |-> h.n + 1,
     lockEnds |-> IF h.n + 1 >= MaxLoginAttempts THEN now + LockDuration ELSE h.lockEnds]

\* writing row under primary key exceptID (0 for a new row) would violate the unique
\* index on email, on username or on phone_number
UniqueIndexClash(row, exceptID) ==
    \E i \in DOMAIN users :
        /\ i # exceptID
        /\ \/ users[i].email = row.email
           \/ users[i].username = row.username
           \/ users[i].phoneNumber = row.phoneNumber

\* UserService.Register(req), first statement: the query for an existing user
Register(w, email, username, password, role) ==
    LET existing == FirstUser({i \in LiveUsers :
                        users[i].email = email \/ users[i].username = username})
    IN /\ workers[w].pc = "idle"
       /\ IF existing # 0
          THEN /\ ret' = [op |-> "Register",
                          err |-> IF users[existing].email = email
                                  THEN "user with this email already exists"
                                  ELSE "user with this username already exists",
                          token |-> <<>>, user |-> NoUser]
               /\ UNCHANGED workers
          ELSE Begin(w, "Register", "create", 0,
                     [email |-> email, username |-> username, password |-> password,
                      role |-> IF role = "" THEN RoleUser ELSE role], NoUser)
       /\ UNCHANGED <<now, users, failedLogins, twoFactorAuths>>
       /\ UNCHANGED UserFrame

\* db.Create(user) on a table without the unique indexes
CreateUserUnchecked(w) ==
    LET req == workers[w].req
        id == Len(users) + 1
        user == BeforeCreate(NewUser(req.email, req.username, req.password, req.role))
    IN /\ At(w, "Register", "create")
       /\ Len(users) < MaxUsers
       /\ users' = Append(users, user)
       /\ Finish(w, [op |-> "Register", err |-> "", token |-> GenerateToken(id, user),
                     user |-> ToResponse(id, user)])
       /\ UNCHANGED <<now, failedLogins, twoFactorAuths>>
       /\ UNCHANGED UserFrame

\* UserService.Register, second statement: db.Create(user), then the token
CreateUser(w) ==
    LET req == workers[w].req
        id == Len(users) + 1
        user == BeforeCreate(NewUser(req.email, req.username, req.password, req.role))
    IN /\ At(w, "Register", "create")
       /\ IF UniqueIndexClash(user, 0)
          THEN /\ users' = users
               /\ Finish(w, [op |-> "Register", err |-> "failed to create user",
                             token |-> <<>>, user |-> NoUser])
          ELSE /\ Len(users) < MaxUsers
               /\ users' = Append(users, user)
               /\ Finish(w, [op |-> "Register", err |-> "", token |-> GenerateToken(id, user),
                             user |-> ToResponse(id, user)])
       /\ UNCHANGED <<now, failedLogins, twoFactorAuths>>
       /\ UNCHANGED UserFrame

\* Database.Seed, first statement: the count of admins
Seed(w) ==
    /\ workers[w].pc = "idle"
    /\ IF \E i \in LiveUsers : users[i].role = RoleAdmin
       THEN /\ ret' = [op |-> "Seed", err |-> ""]
            /\ UNCHANGED workers
       ELSE Begin(w, "Seed", "create", 0, <<>>, NoUser)
    /\ UNCHANGED <<now, users, failedLogins, twoFactorAuths>>
    /\ UNCHANGED UserFrame

\* Database.Seed, second statement: db.Create of the default admin
CreateAdmin(w) ==
    LET user == BeforeCreate(NewUser("admin@example.com", "admin", "admin123", RoleAdmin))
    IN /\ At(w, "Seed", "create")
       /\ IF UniqueIndexClash(user, 0)
          THEN /\ users' = users
               /\ Finish(w, [op |-> "Seed", err |-> "failed to create admin user"])
          ELSE /\ Len(users) < MaxUsers
               /\ users' = Append(users, user)
               /\ Finish(w, [op |-> "Seed", err |-> ""])
       /\ UNCHANGED <<now, failedLogins, twoFactorAuths>>
       /\ UNCHANGED UserFrame

\* UserService.Login(req), with the history of wrong-password attempts kept beside it
Login(email, password) ==
    LET id == FirstUser({i \in LiveUsers : users[i].email = email})
        failed(err) == [op |-> "Login", err |-> err, token |-> <<>>, user |-> NoUser]
    IN /\ IF id = 0
          THEN /\ ret' = failed("invalid email or password")
               /\ failedLogins' = failedLogins
          ELSE IF ~users[id].isActive
          THEN /\ ret' = failed("account is deactivated")
               /\ failedLogins' = failedLogins
          ELSE IF ~CheckPassword(users[id], password)
          THEN /\ ret' = failed("invalid email or password")
               /\ failedLogins' = [failedLogins EXCEPT ![id] = OneMoreFailure(@)]
          ELSE /\ ret' = [op |-> "Login", err |-> "", token |-> GenerateToken(id, users[id]),
                          user |-> ToResponse(id, users[id])]
               /\ failedLogins' = [failedLogins EXCEPT ![id] = NoFailures]
       /\ UNCHANGED <<now, users, twoFactorAuths, workers>>
       /\ UNCHANGED UserFrame

\* UserUpdateRequest: every field is optional, {} is an absent field; the requests of
\* the model set at most one field
UpdateRequests ==
    LET none == [email |-> {}, username |-> {}, role |-> {}, isActive |-> {}]
    IN {none}
       \cup {[none EXCEPT !.email = {e}] : e \in Emails}
       \cup {[none EXCEPT !.username = {u}] : u \in Usernames}
       \cup {[none EXCEPT !.role = {r}] : r \in {RoleUser, RoleAdmin}}
       \cup {[none EXCEPT !.isActive = {a}] : a \in BOOLEAN}

\* the value of an optional field that is present
Deref(field) == CHOOSE v \in field : TRUE

\* the row after Updates(updates)
ApplyUpdates(user, req) ==
    [user EXCEPT !.email = IF req.email # {} THEN Deref(req.email) ELSE @,
                 !.username = IF req.username # {} THEN Deref(req.username) ELSE @,
                 !.role = IF req.role # {} THEN Deref(req.role) ELSE @,
                 !.isActive = IF req.isActive # {} THEN Deref(req.isActive) ELSE @]

\* what UpdateUser returns with an error
UpdateFailed(id, err) == [op |-> "UpdateUser", id |-> id, err |-> err, user |-> NoUser]

\* the statement of UpdateUser that follows the one at pc
AfterUpdateStep(pc, req) ==
    IF pc = "first" /\ req.email # {} THEN "email"
    ELSE IF pc \in {"first", "email"} /\ req.username # {} THEN "username"
    ELSE "updates"

\* UserService.UpdateUser(id, req), first statement: db.First(&user, id)
UpdateUser(w, id, req) ==
    /\ workers[w].pc = "idle"
    /\ IF ~LiveUser(id)
       THEN /\ ret' = UpdateFailed(id, "user not found")
            /\ UNCHANGED workers
       ELSE Begin(w, "UpdateUser", AfterUpdateStep("first", req), id, req, users[id])
    /\ UNCHANGED <<now, users, failedLogins, twoFactorAuths>>
    /\ UNCHANGED UserFrame

\* UpdateUser: the query for another user with the new email
CheckEmailTaken(w) ==
    LET id == workers[w].id
        req == workers[w].req
    IN /\ At(w, "UpdateUser", "email")
       /\ IF \E i \in LiveUsers : users[i].email = Deref(req.email) /\ i # id
          THEN Finish(w, UpdateFailed(id, "email already taken"))
          ELSE /\ workers' = [workers EXCEPT ![w].pc = AfterUpdateStep("email", req)]
               /\ UNCHANGED ret
       /\ UNCHANGED <<now, users, failedLogins, twoFactorAuths>>
       /\ UNCHANGED UserFrame

\* UpdateUser: the query for another user with the new username
CheckUsernameTaken(w) ==
    LET id == workers[w].id
        req == workers[w].req
    IN /\ At(w, "UpdateUser", "username")
       /\ IF \E i \in LiveUsers : users[i].username = Deref(req.username) /\ i # id
          THEN Finish(w, UpdateFailed(id, "username already taken"))
          ELSE /\ workers' = [workers EXCEPT ![w].pc = AfterUpdateStep("username", req)]
               /\ UNCHANGED ret
       /\ UNCHANGED <<now, users, failedLogins, twoFactorAuths>>
       /\ UNCHANGED UserFrame

\* UpdateUser: db.Model(&user).Updates(updates), which matches no row once the row
\* is soft-deleted
Updates(w) ==
    LET id == workers[w].id
        updated == ApplyUpdates(users[id], workers[w].req)
    IN /\ At(w, "UpdateUser", "updates")
       /\ IF LiveUser(id) /\ UniqueIndexClash(updated, id)
          THEN /\ users' = users
               /\ Finish(w, UpdateFailed(id, "failed to update user"))
          ELSE /\ users' = IF LiveUser(id) THEN [users EXCEPT ![id] = updated] ELSE users
               /\ workers' = [workers EXCEPT ![w].pc = "fetch"]
               /\ UNCHANGED ret
       /\ UNCHANGED <<now, failedLogins, twoFactorAuths>>
       /\ UNCHANGED UserFrame

\* UpdateUser, last statement: db.First(&user, id) again, and the row is returned
FetchUpdated(w) ==
    LET id == workers[w].id
    IN /\ At(w, "UpdateUser", "fetch")
       /\ IF ~LiveUser(id)
          THEN Finish(w, UpdateFailed(id, "failed to fetch updated user"))
          ELSE Finish(w, [op |-> "UpdateUser", id |-> id, err |-> "",
                          user |-> ToResponse(id, users[id])])
       /\ UNCHANGED <<now, users, failedLogins, twoFactorAuths>>
       /\ UNCHANGED UserFrame

\* UserService.DeleteUser(id), first statement: db.First(&user, id)
DeleteUser(w, id) ==
    /\ workers[w].pc = "idle"
    /\ IF ~LiveUser(id)
       THEN /\ ret' = [op |-> "DeleteUser", id |-> id, err |-> "user not found"]
            /\ UNCHANGED workers
       ELSE Begin(w, "DeleteUser", "delete", id, <<>>, users[id])
    /\ UNCHANGED <<now, users, failedLogins, twoFactorAuths>>
    /\ UNCHANGED UserFrame

\* DeleteUser, second statement: db.Delete(&user), a soft delete of the row if it is
\* still there
SoftDelete(w) ==
    LET id == workers[w].id
    IN /\ At(w, "DeleteUser", "delete")
       /\ users' = IF LiveUser(id) THEN [users EXCEPT ![id].deleted = TRUE] ELSE users
       /\ Finish(w, [op |-> "DeleteUser", id |-> id, err |-> ""])
       /\ UNCHANGED <<now, failedLogins, twoFactorAuths>>
       /\ UNCHANGED UserFrame

\* the value ChangePassword stores: user.Password = newPassword, then db.Save(&user)
StoredByChangePassword(newPassword) == Plaintext(newPassword)

\* UserService.ChangePassword(id, oldPassword, newPassword), first statement:
\* db.First(&user, id), then the check of the old password on that copy
ChangePassword(w, id, oldPassword, newPassword) ==
    LET result(err) == [op |-> "ChangePassword", id |-> id, err |-> err]
    IN /\ workers[w].pc = "idle"
       /\ IF ~LiveUser(id)
          THEN /\ ret' = result("user not found")
               /\ UNCHANGED workers
          ELSE IF ~CheckPassword(users[id], oldPassword)
          THEN /\ ret' = result("invalid current password")
               /\ UNCHANGED workers
          ELSE Begin(w, "ChangePassword", "save", id,
                     [oldPassword |-> oldPassword, newPassword |-> newPassword],
                     [users[id] EXCEPT !.password = StoredByChangePassword(newPassword)])
       /\ UNCHANGED <<now, users, failedLogins, twoFactorAuths>>
       /\ UNCHANGED UserFrame

\* ChangePassword, second statement: db.Save(&user) writes every column of the copy,
\* unless one of them now violates a unique index
SavePassword(w) ==
    LET id == workers[w].id
    IN /\ At(w, "ChangePassword", "save")
       /\ IF UniqueIndexClash(workers[w].row, id)
          THEN /\ users' = users
               /\ Finish(w, [op |-> "ChangePassword", id |-> id,
                             err |-> "failed to update password"])
          ELSE /\ users' = Save(users, id, workers[w].row)
               /\ Finish(w, [op |-> "ChangePassword", id |-> id, err |-> ""])
       /\ UNCHANGED <<now, failedLogins, twoFactorAuths>>
       /\ UNCHANGED UserFrame

\* TwoFactorService.EnableTwoFactor(userID, method), first statement: the query for
\* the two_factor_auths row of the user
EnableTwoFactor(w, userID) ==
    /\ Begin(w, "EnableTwoFactor", "store", userID, <<>>,
             IF userID \in DOMAIN twoFactorAuths
             THEN [found |-> TRUE, twoFA |-> twoFactorAuths[userID]]
             ELSE [found |-> FALSE])
    /\ UNCHANGED <<now, users, failedLogins, twoFactorAuths>>
    /\ UNCHANGED UserFrame

\* EnableTwoFactor, second statement: db.Create of a new row, which the unique index
\* on user_id may refuse, or db.Save of the row found with is_enabled set
StoreTwoFactor(w) ==
    LET userID == workers[w].id
        found == workers[w].row
    IN /\ At(w, "EnableTwoFactor", "store")
       /\ IF ~found.found /\ userID \in DOMAIN twoFactorAuths
          THEN /\ twoFactorAuths' = twoFactorAuths
               /\ Finish(w, [op |-> "EnableTwoFactor", userID |-> userID,
                             err |-> "UNIQUE constraint failed"])
          ELSE /\ twoFactorAuths' =
                      [u \in DOMAIN twoFactorAuths \cup {userID} |->
                          IF u # userID THEN twoFactorAuths[u]
                          ELSE IF found.found THEN [found.twoFA EXCEPT !.isEnabled = TRUE]
                          ELSE [isEnabled |-> TRUE]]
               /\ workers' = [workers EXCEPT ![w].pc = "flag"]
               /\ UNCHANGED ret
       /\ UNCHANGED <<now, users, failedLogins>>
       /\ UNCHANGED UserFrame

\* TwoFactorService.DisableTwoFactor(userID), first statement:
\* UPDATE two_factor_auths SET is_enabled = false WHERE user_id = ?
DisableTwoFactor(w, userID) ==
    /\ Begin(w, "DisableTwoFactor", "flag", userID, <<>>, NoUser)
    /\ twoFactorAuths' = [u \in DOMAIN twoFactorAuths |->
                             IF u = userID THEN [twoFactorAuths[u] EXCEPT !.isEnabled = FALSE]
                             ELSE twoFactorAuths[u]]
    /\ UNCHANGED <<now, users, failedLogins>>
    /\ UNCHANGED UserFrame

\* the last statement of EnableTwoFactor and of DisableTwoFactor:
\* UPDATE users SET two_factor_enabled = ? WHERE id = ?
UpdateTwoFactorEnabled(w) ==
    LET userID == workers[w].id
        enabled == workers[w].op = "EnableTwoFactor"
    IN /\ workers[w].op \in {"EnableTwoFactor", "DisableTwoFactor"}
       /\ workers[w].pc = "flag"
       /\ users' = IF LiveUser(userID) THEN [users EXCEPT ![userID].twoFactorEnabled = enabled]
                   ELSE users
       /\ Finish(w, [op |-> workers[w].op, userID |-> userID, err |-> ""])
       /\ UNCHANGED <<now, failedLogins, twoFactorAuths>>
       /\ UNCHANGED UserFrame

Init ==
    /\ now = 0
    /\ users = <<>>
    /\ ret = NoRet
    /\ failedLogins = [i \in UserIDs |-> NoFailures]
    /\ twoFactorAuths = <<>>
    /\ jwtExpiry = MaxExpiry
    /\ wire = <<>>
    /\ variant = "table" /\ emailVerifications = <<>>
    /\ workers = [w \in UserWorkers |-> NoUserCall]
    /\ NoSessions /\ NoRequest
    /\ NoLimiter

\* the update requests that set is_active and nothing else
ActivationRequests ==
    {req \in UpdateRequests :
        req.email = {} /\ req.username = {} /\ req.role = {} /\ req.isActive # {}}

\* the update requests that set the email or the username
RenameRequests == {req \in UpdateRequests : req.email # {} \/ req.username # {}}

\* Login beside what changes its outcome: seeding, activation, two-factor, the clock
Next ==
    \/ \E w \in UserWorkers :
          \/ Seed(w)
          \/ CreateAdmin(w)
          \/ \E id \in UserIDs, req \in ActivationRequests : UpdateUser(w, id, req)
          \/ Updates(w)
          \/ FetchUpdated(w)
          \/ \E id \in DOMAIN users : EnableTwoFactor(w, id)
          \/ StoreTwoFactor(w)
          \/ \E id \in DOMAIN users : DisableTwoFactor(w, id)
          \/ UpdateTwoFactorEnabled(w)
    \/ \E e \in Emails, p \in Passwords :
          Login(e, p) /\ \A i \in UserIDs : failedLogins'[i].n <= MaxFailedLogins
    \/ Tick

Spec == Init /\ [][Next]_vars

\* C3: once an identity has MaxLoginAttempts consecutive failed logins, a Login for it
\* is rejected as AccountLocked while the lock runs, whatever the password; once
\* LockDuration has passed, a Login with the correct password succeeds and the
\* failed-attempt counter of the identity is 0 again.
C3_LockoutAfterMaxAttempts ==
    [][\A e \in Emails, p \in Passwords :
          LET id == FirstUser({i \in LiveUsers : users[i].email = e})
          IN (/\ Login(e, p)
              /\ id # 0
              /\ users[id].isActive
              /\ failedLogins[id].n >= MaxLoginAttempts) =>
                 IF now < failedLogins[id].lockEnds
                 THEN ret'.err = "AccountLocked" /\ ret'.token = <<>>
                 ELSE CheckPassword(users[id], p) =>
                         /\ ret'.err = ""
                         /\ users'[id].failedLoginAttempts = 0]_vars

\* C4: Login by itself returns no bearer token for an identity that has two-factor
\* authentication enabled.
C4_TwoFactorGatesToken ==
    (ret.op = "Login" /\ ret.err = "") => ~ret.user.twoFactorEnabled

\* the table once the service has seeded its administrator and holds one more
\* identity, a row that came with a phone number of its own
SeededUsers ==
    <<BeforeCreate(NewUser("admin@example.com", "admin", "admin123", RoleAdmin)),
      [BeforeCreate(NewUser("user@example.com", "user", "pw2", "")) EXCEPT
          !.phoneNumber = "+15550002"]>>

InitPassword ==
    /\ now = 0
    /\ users = SeededUsers
    /\ ret = NoRet
    /\ failedLogins = [i \in UserIDs |-> NoFailures]
    /\ twoFactorAuths = <<>>
    /\ jwtExpiry = MaxExpiry
    /\ wire = <<>>
    /\ variant = "table" /\ emailVerifications = <<>>
    /\ workers = [w \in UserWorkers |-> NoUserCall]
    /\ NoSessions /\ NoRequest
    /\ NoLimiter

\* an address no identity holds when the service starts
FreeEmail == "new@example.com"

\* the update request that sets the email and nothing else
EmailChange(email) == [email |-> {email}, username |-> {}, role |-> {}, isActive |-> {}]

\* the passwords of an identity: seeding, password changes, changes of the email a
\* stale copy still carries, deletion
NextPassword ==
    \/ \E w \in UserWorkers :
          \/ Seed(w)
          \/ CreateAdmin(w)
          \/ \E id \in UserIDs, old \in Passwords, new \in Passwords :
                ChangePassword(w, id, old, new)
          \/ SavePassword(w)
          \/ \E id \in UserIDs, e \in {SeededUsers[2].email, FreeEmail} :
                UpdateUser(w, id, EmailChange(e))
          \/ CheckEmailTaken(w)
          \/ Updates(w)
          \/ FetchUpdated(w)
          \/ \E id \in UserIDs : DeleteUser(w, id)
          \/ SoftDelete(w)

SpecPassword == InitPassword /\ [][NextPassword]_vars

\* C7: after every step the stored password of every identity is a bcrypt hash, and
\* after a successful ChangePassword(id, old, new) it verifies new and, when old
\* differs from new, does not verify old.
C7_StoredPasswordsAreHashes ==
    [][/\ \A i \in DOMAIN users' : IsBcryptHash(users'[i].password)
       /\ \A w \in UserWorkers :
             (SavePassword(w) /\ ret'.err = "") =>
                 LET id == workers[w].id
                     old == workers[w].req.oldPassword
                     new == workers[w].req.newPassword
                 IN /\ CheckPassword(users'[id], new)
                    /\ old # new => ~CheckPassword(users'[id], old)]_vars

\* C13: any two rejected Login calls return one and the same error, whichever of
\* unknown email, inactive identity, locked identity or wrong password caused them.
C13_UniformLoginError ==
    [][(/\ ret.op = "Login"
        /\ ret.err # ""
        /\ ret'.op = "Login"
        /\ ret'.err # "") => ret'.err = ret.err]_vars

\* Registration beside the calls that change what it finds: seeding, renaming, deletion
NextRegister ==
    \/ \E w \in UserWorkers :
          \/ Seed(w)
          \/ CreateAdmin(w)
          \/ \E e \in Emails, u \in Usernames, p \in Passwords, r \in {"", RoleAdmin} :
                Register(w, e, u, p, r)
          \/ CreateUser(w)
          \/ \E id \in UserIDs, req \in RenameRequests : UpdateUser(w, id, req)
          \/ CheckEmailTaken(w)
          \/ CheckUsernameTaken(w)
          \/ Updates(w)
          \/ FetchUpdated(w)
          \/ \E id \in UserIDs : DeleteUser(w, id)
          \/ SoftDelete(w)

SpecRegister == Init /\ [][NextRegister]_vars

\* what Register returns with an error: neither a token nor a user
RegisterRejected ==
    /\ ret'.op = "Register"
    /\ ret'.err # ""
    /\ ret'.token = <<>>
    /\ ret'.user = NoUser

\* C20: Register returns an error whenever an identity with the same email or the same
\* username exists, and a Register that returns an error leaves the users table as it
\* was and returns neither a token nor a user.
C20_RegisterRejectsDuplicates ==
    [][\A w \in UserWorkers :
          /\ \A e \in Emails, u \in Usernames, p \in Passwords, r \in {"", RoleAdmin} :
                Register(w, e, u, p, r) =>
                    /\ users' = users
                    /\ (\E i \in LiveUsers : users[i].email = e \/ users[i].username = u) =>
                           RegisterRejected
                    /\ workers'[w].pc = "idle" => RegisterRejected
          /\ CreateUser(w) =>
                /\ (\E i \in LiveUsers : \/ users[i].email = workers[w].req.email
                                         \/ users[i].username = workers[w].req.username) =>
                       RegisterRejected
                /\ ret'.op = "Register"
                /\ ret'.err # "" => (users' = users /\ RegisterRejected)]_vars

\* C20 witness: with the users table not yet full, Register has just been rejected for
\* a username that an existing identity with another email holds
C20_Witness ==
    /\ ret.op = "Register"
    /\ ret.err = "user with this username already exists"
    /\ Len(users) < MaxUsers

----------------------------------------------------------------------------
(* Role checks: middleware/auth.go and the role methods of models.User *)

\* role values a token or a row may carry: the three roles, the empty role, an unknown one
RoleValues == Roles \cup {"", "guest"}

\* hasRolePermission with the admin alternative of the moderator case forgotten
hasRolePermissionExactMatch(userRole, requiredRole) ==
    CASE requiredRole = RoleAdmin -> userRole = RoleAdmin
      [] requiredRole = RoleModerator -> userRole = RoleModerator
      [] requiredRole = RoleUser -> TRUE
      [] OTHER -> FALSE

\* middleware.hasRolePermission(userRole, requiredRole)
hasRolePermission(userRole, requiredRole) ==
    CASE requiredRole = RoleAdmin -> userRole = RoleAdmin
      [] requiredRole = RoleModerator -> userRole = RoleAdmin \/ userRole = RoleModerator
      [] requiredRole = RoleUser -> TRUE
      [] OTHER -> FALSE

\* User.HasPermission(requiredRole)
HasPermission(u, requiredRole) ==
    CASE requiredRole = RoleAdmin -> u.role = RoleAdmin
      [] requiredRole = RoleModerator -> u.role = RoleAdmin \/ u.role = RoleModerator
      [] requiredRole = RoleUser -> TRUE
      [] OTHER -> FALSE

\* User.IsAdmin
IsAdmin(u) == u.role = RoleAdmin

\* User.CanAccessResource(resourceUserID)
CanAccessResource(u, resourceUserID) ==
    IF IsAdmin(u) THEN TRUE ELSE u.id = resourceUserID

\* a key of the gin context: absent, present with a value of another type, or
\* present with a value of the type the middleware asserts
ContextAbsent == [exists |-> FALSE, typeOK |-> FALSE, value |-> <<>>]
ContextWrongType == [exists |-> TRUE, typeOK |-> FALSE, value |-> <<>>]
ContextValue(v) == [exists |-> TRUE, typeOK |-> TRUE, value |-> <<v>>]

ContextUserIDs == {ContextAbsent, ContextWrongType} \cup {ContextValue(id) : id \in UserIDs}
ContextRoles == {ContextAbsent, ContextWrongType} \cup {ContextValue(r) : r \in RoleValues}

Aborted(status) == [status |-> status, next |-> FALSE]
Passed == [status |-> 200, next |-> TRUE]

\* RequireOwnerOrAdmin with moderators let through as well
OwnerOrAdminAlsoModerator(userID, userRole, resourceUserID) ==
    IF ~userID.exists THEN Aborted(401)
    ELSE IF ~userID.typeOK THEN Aborted(500)
    ELSE IF ~userRole.exists THEN Aborted(401)
    ELSE IF ~userRole.typeOK THEN Aborted(500)
    ELSE IF userRole.value[1] = RoleAdmin \/ userRole.value[1] = RoleModerator THEN Passed
    ELSE IF userID.value[1] = resourceUserID THEN Passed
    ELSE Aborted(403)

\* the handler RequireOwnerOrAdmin returns, on a context with these user_id and
\* user_role keys and a resource of resourceUserID
OwnerOrAdmin(userID, userRole, resourceUserID) ==
    IF ~userID.exists THEN Aborted(401)
    ELSE IF ~userID.typeOK THEN Aborted(500)
    ELSE IF ~userRole.exists THEN Aborted(401)
    ELSE IF ~userRole.typeOK THEN Aborted(500)
    ELSE IF userRole.value[1] = RoleAdmin THEN Passed
    ELSE IF userID.value[1] = resourceUserID THEN Passed
    ELSE Aborted(403)

\* a call of hasRolePermission
CallHasRolePermission(userRole, requiredRole) ==
    /\ request' = [userRole |-> userRole, requiredRole |-> requiredRole]
    /\ ret' = [op |-> "hasRolePermission", ok |-> hasRolePermission(userRole, requiredRole)]
    /\ UNCHANGED RBACFrame

\* a call of User.HasPermission on a user of role userRole
CallHasPermission(userRole, requiredRole) ==
    /\ request' = [userRole |-> userRole, requiredRole |-> requiredRole]
    /\ ret' = [op |-> "HasPermission",
               ok |-> HasPermission([id |-> 1, role |-> userRole], requiredRole)]
    /\ UNCHANGED RBACFrame

\* a request passes through RequireOwnerOrAdmin
RequireOwnerOrAdmin(userID, userRole, resourceUserID) ==
    /\ request' = [userID |-> userID, userRole |-> userRole, resourceUserID |-> resourceUserID]
    /\ ret' = [op |-> "RequireOwnerOrAdmin",
               response |-> OwnerOrAdmin(userID, userRole, resourceUserID)]
    /\ UNCHANGED RBACFrame

\* a call of User.CanAccessResource on the user (id, role)
CallCanAccessResource(id, role, resourceUserID) ==
    /\ request' = [userID |-> ContextValue(id), userRole |-> ContextValue(role),
                   resourceUserID |-> resourceUserID]
    /\ ret' = [op |-> "CanAccessResource",
               ok |-> CanAccessResource([id |-> id, role |-> role], resourceUserID)]
    /\ UNCHANGED RBACFrame

InitRBAC ==
    /\ now = 0
    /\ users = <<>>
    /\ ret = NoRet
    /\ request = <<>>
    /\ NoOTP /\ NoSessions /\ NoLogins /\ NoTokens
    /\ NoLimiter

NextRBAC ==
    \/ \E a \in RoleValues, r \in RoleValues : CallHasRolePermission(a, r)
    \/ \E a \in RoleValues, r \in RoleValues : CallHasPermission(a, r)
    \/ \E id \in ContextUserIDs, role \in ContextRoles, owner \in UserIDs :
          RequireOwnerOrAdmin(id, role, owner)
    \/ \E id \in UserIDs, role \in RoleValues, owner \in UserIDs :
          CallCanAccessResource(id, role, owner)

SpecRBAC == InitRBAC /\ [][NextRBAC]_vars

\* the strict order Admin > Moderator > User
RoleRank(role) == CASE role = RoleAdmin -> 3 [] role = RoleModerator -> 2 [] role = RoleUser -> 1

\* C8: for every actual and required role among Admin, Moderator and User, both
\* hasRolePermission and User.HasPermission return true exactly when the actual role
\* is at least the required role in the order Admin > Moderator > User.
C8_RoleHierarchy ==
    (/\ ret.op \in {"hasRolePermission", "HasPermission"}
     /\ request.userRole \in Roles
     /\ request.requiredRole \in Roles) =>
        (ret.ok <=> RoleRank(request.userRole) >= RoleRank(request.requiredRole))

\* C8 witness: hasRolePermission has just refused a Moderator where Admin is required
C8_Witness ==
    /\ ret.op = "hasRolePermission"
    /\ request.userRole = RoleModerator
    /\ request.requiredRole = RoleAdmin
    /\ ~ret.ok

\* the caller of the request is an Admin or the owner of the resource
OwnerOrAdminCaller ==
    \/ request.userRole.value[1] = RoleAdmin
    \/ request.userID.value[1] = request.resourceUserID

\* C9: RequireOwnerOrAdmin lets a request with an authenticated caller through exactly
\* when the caller's role is Admin or the caller's ID is the resource owner's ID, and
\* answers 403 to every other caller, a Moderator included; a request without a caller
\* identity never gets through; User.CanAccessResource returns true in the same cases.
C9_OwnerOrAdmin ==
    /\ ret.op = "RequireOwnerOrAdmin" =>
          IF request.userID.typeOK /\ request.userRole.typeOK
          THEN /\ ret.response.next <=> OwnerOrAdminCaller
               /\ ~ret.response.next => ret.response.status = 403
          ELSE ~ret.response.next
    /\ ret.op = "CanAccessResource" => (ret.ok <=> OwnerOrAdminCaller)

\* C9 witness: RequireOwnerOrAdmin has just answered 403 to a Moderator who asked for
\* another identity's resource
C9_Witness ==
    /\ ret.op = "RequireOwnerOrAdmin"
    /\ request.userID.typeOK
    /\ request.userRole.typeOK
    /\ request.userRole.value[1] = RoleModerator
    /\ request.userID.value[1] # request.resourceUserID
    /\ ret.response = Aborted(403)
----------------------------------------------------------------------------
(* The route table of handlers/router.go and the handler chain gin runs for  *)
(* a request: the middleware of the route's groups in order, then the        *)
(* handler, unless one of them calls c.Abort().                              *)

GuardFrame == <<now, variant, users, emailVerifications, userSessions, revoked,
                failedLogins, twoFactorAuths, jwtExpiry, wire>>

\* a header value is a sequence of pieces: a piece of text, or a token string
Word(text) == [text |-> text, jwt |-> <<>>]
Space == Word(" ")
TokenString(token) == [text |-> "", jwt |-> <<token>>]

\* the index of the first separator in s, 0 when there is none
RECURSIVE IndexOf(_, _, _)
IndexOf(s, sep, i) ==
    IF i > Len(s) THEN 0
    ELSE IF s[i] = sep THEN i
    ELSE IndexOf(s, sep, i + 1)

\* strings.SplitN(s, " ", 2)
SplitN2(s) ==
    LET i == IndexOf(s, Space, 1) IN
    IF i = 0 THEN <<s>>
    ELSE <<SubSeq(s, 1, i - 1), SubSeq(s, i + 1, Len(s))>>

\* jwtService.ValidateToken on the text after "Bearer ": anything that is not one
\* token string does not parse
ValidateTokenString(s) ==
    IF Len(s) = 1 /\ s[1].jwt # <<>> THEN ValidateResult(s[1].jwt[1])
    ELSE [err |-> "token contains an invalid number of segments", claims |-> NoClaims]

EmptyContext == [userID |-> ContextAbsent, userRole |-> ContextAbsent]

\* AuthMiddleware taking the token from any two-part header, whatever its scheme
AuthMiddlewareAnyScheme(header) ==
    LET parts == SplitN2(header)
        result == ValidateTokenString(parts[2])
    IN IF header = <<>> THEN [response |-> Aborted(401), context |-> EmptyContext]
       ELSE IF Len(parts) # 2
            THEN [response |-> Aborted(401), context |-> EmptyContext]
       ELSE IF result.err # ""
            THEN [response |-> Aborted(401), context |-> EmptyContext]
       ELSE [response |-> Passed,
             context |-> [userID |-> ContextValue(result.claims.userID),
                          userRole |-> ContextValue(result.claims.role)]]

\* AuthMiddleware(jwtService): the response and the context it leaves
AuthMiddleware(header) ==
    LET parts == SplitN2(header)
        result == ValidateTokenString(parts[2])
    IN IF header = <<>> THEN [response |-> Aborted(401), context |-> EmptyContext]
       ELSE IF Len(parts) # 2 \/ parts[1] # <<Word("Bearer")>>
            THEN [response |-> Aborted(401), context |-> EmptyContext]
       ELSE IF result.err # ""
            THEN [response |-> Aborted(401), context |-> EmptyContext]
       ELSE [response |-> Passed,
             context |-> [userID |-> ContextValue(result.claims.userID),
                          userRole |-> ContextValue(result.claims.role)]]

\* RequireRole(requiredRoles...) on a context with this user_role key
RequireRole(userRole, requiredRoles) ==
    IF ~userRole.exists THEN Aborted(401)
    ELSE IF ~userRole.typeOK THEN Aborted(500)
    ELSE IF \E i \in DOMAIN requiredRoles : hasRolePermission(userRole.value[1], requiredRoles[i])
         THEN Passed
    ELSE Aborted(403)

\* RequireAdmin()
RequireAdmin(userRole) == RequireRole(userRole, <<RoleAdmin>>)

\* a RequireModerator that asks for the User role
RequireModeratorAnyRole(userRole) == RequireRole(userRole, <<RoleUser>>)

\* RequireModerator()
RequireModerator(userRole) == RequireRole(userRole, <<RoleAdmin, RoleModerator>>)

\* the routes of setupRoutes, by group
PublicRoutes == {"POST /api/v1/auth/register", "POST /api/v1/auth/login"}
UserRoutes == {"GET /api/v1/user/profile", "PUT /api/v1/user/profile",
               "POST /api/v1/user/change-password"}
AdminRoutes == {"GET /api/v1/admin/users", "GET /api/v1/admin/users/:id",
                "PUT /api/v1/admin/users/:id", "DELETE /api/v1/admin/users/:id"}
ModRoutes == {"GET /api/v1/mod/users"}
OwnerRoutes == {"PUT /api/v1/users/:id"}
ProtectedRoutes == UserRoutes \cup AdminRoutes \cup ModRoutes \cup OwnerRoutes
Routes == PublicRoutes \cup ProtectedRoutes

\* the handler a route ends in
RouteHandler(route) ==
    CASE route = "POST /api/v1/auth/register" -> "Register"
      [] route = "POST /api/v1/auth/login" -> "Login"
      [] route = "GET /api/v1/user/profile" -> "GetProfile"
      [] route = "PUT /api/v1/user/profile" -> "UpdateUser"
      [] route = "POST /api/v1/user/change-password" -> "ChangePassword"
      [] route = "GET /api/v1/admin/users" -> "GetUsers"
      [] route = "GET /api/v1/admin/users/:id" -> "GetUser"
      [] route = "PUT /api/v1/admin/users/:id" -> "UpdateUser"
      [] route = "DELETE /api/v1/admin/users/:id" -> "DeleteUser"
      [] route = "GET /api/v1/mod/users" -> "GetUsers"
      [] route = "PUT /api/v1/users/:id" -> "UpdateUser"

\* the digits of an :id path parameter; any other character is "x"
Digits == {"0", "1", "2"}
DigitValue(c) == CASE c = "0" -> 0 [] c = "1" -> 1 [] c = "2" -> 2

\* strconv.ParseUint(idParam, 10, 32): Nil stands for the error
RECURSIVE ParseUint(_)
ParseUint(s) ==
    IF s = <<>> THEN Nil
    ELSE IF s[Len(s)] \notin Digits THEN Nil
    ELSE IF Len(s) = 1 THEN DigitValue(s[1])
    ELSE IF ParseUint(SubSeq(s, 1, Len(s) - 1)) = Nil THEN Nil
    ELSE 10 * ParseUint(SubSeq(s, 1, Len(s) - 1)) + DigitValue(s[Len(s)])

\* UserHandler.GetUserIDFromParam
GetUserIDFromParam(idParam) == IF ParseUint(idParam) = Nil THEN 0 ELSE ParseUint(idParam)

\* the middleware in front of a route's handler, run in order: the response of the
\* first one that aborts, or Passed, and the context the handler sees
RunMiddleware(route, header, idParam) ==
    LET auth == AuthMiddleware(header) IN
    IF route \in PublicRoutes THEN [response |-> Passed, context |-> EmptyContext]
    ELSE IF ~auth.response.next THEN auth
    ELSE IF route \in AdminRoutes
         THEN [response |-> RequireAdmin(auth.context.userRole), context |-> auth.context]
    ELSE IF route \in ModRoutes
         THEN [response |-> RequireModerator(auth.context.userRole), context |-> auth.context]
    ELSE IF route \in OwnerRoutes
         THEN [response |-> OwnerOrAdmin(auth.context.userID, auth.context.userRole,
                                         GetUserIDFromParam(idParam)),
               context |-> auth.context]
    ELSE auth

\* the client every request of the model comes from
ClientIP == "192.0.2.1"

\* a slice of request times is kept as the number of its elements per time: the
\* handler filters, counts and appends, and never looks at the order
NoRequests == [t \in Times |-> 0]

\* len(requests)
RECURSIVE CountUpTo(_, _)
CountUpTo(requests, t) == IF t < 0 THEN 0 ELSE requests[t] + CountUpTo(requests, t - 1)
Count(requests) == CountUpTo(requests, MaxTime)

\* append(requests, t)
AppendTime(requests, t) == [requests EXCEPT ![t] = @ + 1]

\* the elements of requests that are less than a minute old at time t
Recent(requests, t) ==
    [reqTime \in Times |-> IF t - reqTime < RateWindow THEN requests[reqTime] ELSE 0]

\* clientRequests[clientIP]: the nil slice for a key the map does not hold
RequestsOf(clientIP) ==
    IF clientIP \in DOMAIN clientRequests THEN clientRequests[clientIP] ELSE NoRequests

\* clientRequests[clientIP] = requests
StoreRequests(clientIP, requests) ==
    [k \in DOMAIN clientRequests \cup {clientIP} |->
        IF k = clientIP THEN requests ELSE clientRequests[k]]

\* the request times on record that are less than a minute old at time t
ValidRequests(clientIP, t) == Recent(RequestsOf(clientIP), t)

\* the record of a client that has left requests left in the minute at time 0
OnRecord(left) == [k \in {ClientIP} |-> [NoRequests EXCEPT ![0] = RateLimit - left]]

RequestsOnRecord == OnRecord(RequestsLeft)

\* the client sends a request while its record of the minute is within left of empty
\* or of the limit
Sends(left) ==
    \/ Count(ValidRequests(ClientIP, now)) < left
    \/ Count(ValidRequests(ClientIP, now)) >= RateLimit - left

ClientSends == Sends(RequestsLeft)

\* RateLimitMiddleware, which the engine runs in front of every route, is a handler
\* built over the clientRequests map, which no lock protects.  gin serves each request
\* in a goroutine of its own: every statement that reads or writes the map is a step
\* of the goroutine, and the steps of two requests interleave.

\* a request arrives: clientIP := c.ClientIP(); now := time.Now().  The goroutine
\* holds the request as the client sent it, with the token the client had then.
RateLimitRequest(w, clientIP) ==
    /\ workers[w].pc = "idle"
    /\ workers' = [workers EXCEPT ![w] =
           [pc |-> "clean", op |-> "RateLimitMiddleware", key |-> clientIP, t |-> now,
            requests |-> <<>>, token |-> wire]]
    /\ UNCHANGED <<now, ret>>
    /\ UNCHANGED LimiterVars
    /\ UNCHANGED LimiterFrame

\* requests, exists := clientRequests[clientIP], and the loop that keeps the request
\* times less than a minute old in validRequests, a slice of the goroutine
CleanOldRequests(w) ==
    /\ workers[w].pc = "clean"
    /\ workers' = [workers EXCEPT ![w] =
           IF workers[w].key \in DOMAIN clientRequests
           THEN [@ EXCEPT !.pc = "store",
                          !.requests = Recent(clientRequests[workers[w].key], workers[w].t)]
           ELSE [@ EXCEPT !.pc = "check"]]
    /\ UNCHANGED <<now, ret>>
    /\ UNCHANGED LimiterVars
    /\ UNCHANGED LimiterFrame

\* clientRequests[clientIP] = validRequests
StoreValidRequests(w) ==
    /\ workers[w].pc = "store"
    /\ clientRequests' = StoreRequests(workers[w].key, workers[w].requests)
    /\ workers' = [workers EXCEPT ![w].pc = "check"]
    /\ UNCHANGED <<now, ret, tokenBuckets, buckets, admitted>>
    /\ UNCHANGED LimiterFrame

\* if len(clientRequests[clientIP]) >= 100: 429 and c.Abort(); no middleware of the
\* route and no handler runs
CheckLimit(w) ==
    /\ workers[w].pc = "check"
    /\ IF Count(RequestsOf(workers[w].key)) >= RateLimit
       THEN /\ workers' = [workers EXCEPT ![w] = NoUserCall]
            /\ ret' = [op |-> "RateLimitMiddleware", key |-> workers[w].key,
                       status |-> 429, next |-> FALSE, handler |-> ""]
       ELSE /\ workers' = [workers EXCEPT ![w].pc = "append"]
            /\ UNCHANGED ret
    /\ UNCHANGED now
    /\ UNCHANGED LimiterVars
    /\ UNCHANGED LimiterFrame

\* append(clientRequests[clientIP], now): the right-hand side of the assignment
AppendRequest(w) ==
    /\ workers[w].pc = "append"
    /\ workers' = [workers EXCEPT ![w].pc = "add",
                                  ![w].requests = AppendTime(RequestsOf(workers[w].key),
                                                             workers[w].t)]
    /\ UNCHANGED <<now, ret>>
    /\ UNCHANGED LimiterVars
    /\ UNCHANGED LimiterFrame

\* clientRequests[clientIP] = <the slice appended to>; c.Next() is next
AddRequest(w) ==
    /\ workers[w].pc = "add"
    /\ clientRequests' = StoreRequests(workers[w].key, workers[w].requests)
    /\ workers' = [workers EXCEPT ![w].pc = "next", ![w].requests = <<>>]
    /\ UNCHANGED <<now, ret, tokenBuckets, buckets, admitted>>
    /\ UNCHANGED LimiterFrame

\* the goroutine is at a statement that reads or writes the map
AtMapAccess(w) == workers[w].pc \in {"clean", "store", "check", "append", "add"}

\* a goroutine writes the map while another one is reading or writing it: the Go
\* runtime may notice and end the process, every goroutine with it
ConcurrentMapWrites(w) ==
    /\ workers[w].pc \in {"store", "add"}
    /\ \E w2 \in DOMAIN workers : w2 # w /\ AtMapAccess(w2)
    /\ ret' = [op |-> "fatal error: concurrent map writes", key |-> workers[w].key,
               status |-> 0, next |-> FALSE, handler |-> ""]
    /\ workers' = [w2 \in DOMAIN workers |-> [NoUserCall EXCEPT !.pc = "exited"]]
    /\ UNCHANGED now
    /\ UNCHANGED LimiterVars
    /\ UNCHANGED LimiterFrame

\* c.Next() of RateLimitMiddleware: the engine takes the request through the
\* middleware of its route, which reads the route, the header and the path of the
\* request; ret.next says whether the route's handler is run
ServeHTTP(w, route, header, idParam, body) ==
    LET chain == RunMiddleware(route, header, idParam)
    IN /\ workers[w].pc = "next"
       /\ request' = [route |-> route, header |-> header, idParam |-> idParam, body |-> body,
                      context |-> chain.context]
       /\ ret' = [op |-> "ServeHTTP",
                  status |-> chain.response.status,
                  next |-> chain.response.next,
                  handler |-> IF chain.response.next THEN RouteHandler(route) ELSE ""]
       /\ workers' = [workers EXCEPT ![w] = NoUserCall]
       /\ UNCHANGED LimiterVars
       /\ UNCHANGED GuardFrame

\* the token strings clients send in SpecGuards: tokens the service issued at tick 0 to
\* either identity under any role value, with a lifetime of up to MaxExpiry ticks, and
\* two forgeries of an Admin token
IssuedTokens ==
    {SignedString("HS256", ServerSecret,
                  [userID |-> u, email |-> RegisteredUsers[u].email,
                   username |-> RegisteredUsers[u].username, role |-> r,
                   exp |-> e, iat |-> 0, nbf |-> 0]) :
        u \in UserIDs, r \in RoleValues, e \in 1..MaxExpiry}
ForgedTokens ==
    {SignedString(alg, OtherKey,
                  [userID |-> 1, email |-> RegisteredUsers[1].email,
                   username |-> RegisteredUsers[1].username, role |-> RoleAdmin,
                   exp |-> MaxTime, iat |-> 0, nbf |-> 0]) : alg \in {"HS256", "none"}}
ClientTokens == IssuedTokens \cup ForgedTokens

AdminToken ==
    SignedString("HS256", ServerSecret,
                 [userID |-> 1, email |-> RegisteredUsers[1].email,
                  username |-> RegisteredUsers[1].username, role |-> RoleAdmin,
                  exp |-> MaxTime, iat |-> 0, nbf |-> 0])

\* the Authorization headers clients send: none, malformed ones around a valid Admin
\* token, and "Bearer <token>" with every client token
MalformedHeaders ==
    {<<Word("Bearer")>>,
     <<TokenString(AdminToken)>>,
     <<Word("bearer"), Space, TokenString(AdminToken)>>,
     <<Word("Basic"), Space, TokenString(AdminToken)>>,
     <<Word("Bearer"), Space, Space, TokenString(AdminToken)>>,
     <<Word("Bearer"), Space, Word("garbage")>>}
BearerHeader(token) == <<Word("Bearer"), Space, TokenString(token)>>
Headers == {<<>>} \cup MalformedHeaders \cup {BearerHeader(t) : t \in ClientTokens}

\* c.Param("id"): empty on a route without :id, one path segment otherwise
ParamRoutes == {"GET /api/v1/admin/users/:id", "PUT /api/v1/admin/users/:id",
                "DELETE /api/v1/admin/users/:id", "PUT /api/v1/users/:id"}
IDParams(route) == IF route \in ParamRoutes THEN {<<"1">>, <<"2">>, <<"x">>} ELSE {<<>>}

NoBody == <<>>

InitGuards ==
    /\ now = 0
    /\ users = RegisteredUsers
    /\ ret = NoRet
    /\ request = <<>>
    /\ variant = "table" /\ emailVerifications = <<>>
    /\ workers = [w \in Workers |-> NoUserCall]
    /\ NoSessions /\ NoLogins /\ NoTokens
    /\ tokenBuckets = <<>> /\ buckets = <<>> /\ admitted = <<>>
    /\ clientRequests = OnRecord(GuardRequestsLeft)

\* the client takes the answer of the route's middleware; ret and request, which no
\* step of a goroutine reads, are free for the next answer
TakeResponse ==
    /\ ret.op = "ServeHTTP"
    /\ ret' = NoRet
    /\ request' = <<>>
    /\ UNCHANGED <<workers, LimiterVars>>
    /\ UNCHANGED GuardFrame

\* no answer waits for its client
NoAnswer == ret.op # "ServeHTTP"

\* an answer is taken before the goroutines and the clock go on
NextGuards ==
    \/ \E w \in Workers :
          \/ NoAnswer /\ Sends(GuardRequestsLeft) /\ RateLimitRequest(w, ClientIP)
          \/ NoAnswer /\ CleanOldRequests(w)
          \/ NoAnswer /\ StoreValidRequests(w)
          \/ NoAnswer /\ CheckLimit(w)
          \/ NoAnswer /\ AppendRequest(w)
          \/ NoAnswer /\ AddRequest(w)
          \/ NoAnswer /\ ConcurrentMapWrites(w)
          \/ \E route \in Routes, header \in Headers :
                \E idParam \in IDParams(route) :
                    NoAnswer /\ ServeHTTP(w, route, header, idParam, NoBody)
    \/ NoAnswer /\ TickJWT
    \/ TakeResponse

SpecGuards == InitGuards /\ [][NextGuards]_vars

\* the header of the request has the form "Bearer <token>" with one token string
WellFormedBearer(header) ==
    /\ Len(header) = 3
    /\ header[1] = Word("Bearer")
    /\ header[2] = Space
    /\ header[3].jwt # <<>>

\* C21: on a route behind AuthMiddleware the handler runs only for a request whose
\* Authorization header is "Bearer <token>" with a token ValidateToken accepts at that
\* time; every other request that reaches AuthMiddleware is answered 401 and its
\* handler does not run.  A request RateLimitMiddleware turns away with 429 does not
\* reach AuthMiddleware, and its handler does not run either.
C21_AuthMiddlewareGuards ==
    [][\A w \in Workers :
          /\ (/\ workers[w].pc = "next"
              /\ workers'[w].pc = "idle"
              /\ ret'.op = "ServeHTTP"
              /\ request'.route \in ProtectedRoutes) =>
                 IF /\ WellFormedBearer(request'.header)
                    /\ ValidateResult(request'.header[3].jwt[1]).err = ""
                 THEN ret'.status # 401
                 ELSE ret'.status = 401 /\ ~ret'.next /\ ret'.handler = ""
          /\ (CheckLimit(w) /\ workers'[w].pc = "idle") =>
                 /\ ret'.status = 429 /\ ~ret'.next /\ ret'.handler = ""
                 /\ request' = request]_vars

\* C21 witness: a profile request with "Bearer <token>" has just been answered 401
\* because the token, issued by the service, has expired
C21_Witness ==
    /\ ret.op = "ServeHTTP"
    /\ request.route = "GET /api/v1/user/profile"
    /\ WellFormedBearer(request.header)
    /\ request.header[3].jwt[1] \in IssuedTokens
    /\ now >= request.header[3].jwt[1].claims.exp
    /\ ret.status = 401
    /\ ~ret.next

\* C22: a handler of the admin group runs only for a request whose token role is
\* Admin, a handler of the moderator group only for role Admin or Moderator; a request
\* that passed AuthMiddleware with any other role is answered 403 and the handler does
\* not run.
C22_RoleGroups ==
    (/\ ret.op = "ServeHTTP"
     /\ request.route \in AdminRoutes \cup ModRoutes
     /\ request.context.userRole.exists) =>
        LET role == request.header[3].jwt[1].claims.role
            allowed == IF request.route \in AdminRoutes THEN {RoleAdmin}
                       ELSE {RoleAdmin, RoleModerator}
        IN IF role \in allowed THEN ret.next /\ ret.handler = RouteHandler(request.route)
           ELSE ret.status = 403 /\ ~ret.next /\ ret.handler = ""

\* C22 witness: a Moderator's valid token has just been refused with 403 on an admin
\* route
C22_Witness ==
    /\ ret.op = "ServeHTTP"
    /\ request.route = "DELETE /api/v1/admin/users/:id"
    /\ request.context.userRole = ContextValue(RoleModerator)
    /\ ret.status = 403
    /\ ~ret.next
----------------------------------------------------------------------------
(* The lock methods of models.User, on user objects held in memory.  In      *)
(* SpecLock the variable request keeps, per user, the last lock call made:   *)
(* which method, when, and for how long.                                     *)

LockFrame == <<variant, emailVerifications, workers, userSessions, revoked, failedLogins,
               twoFactorAuths, jwtExpiry, wire, LimiterVars>>

\* the durations LockAccount is called with, in ticks
Durations == 0..MaxTime

\* IsAccountLocked with the moment the lock ends counted as locked
IsAccountLockedInclusive(u) ==
    IF u.accountLockedUntil = Nil THEN FALSE
    ELSE now <= u.accountLockedUntil

\* User.IsAccountLocked: time.Now().Before(*u.AccountLockedUntil)
IsAccountLocked(u) ==
    IF u.accountLockedUntil = Nil THEN FALSE
    ELSE now < u.accountLockedUntil

NoLockCall == [op |-> "none", at |-> 0, duration |-> 0]

\* a call of User.IsAccountLocked
CallIsAccountLocked(id) ==
    /\ ret' = [op |-> "IsAccountLocked", id |-> id, ok |-> IsAccountLocked(users[id])]
    /\ UNCHANGED <<now, users, request>>
    /\ UNCHANGED LockFrame

\* User.LockAccount(duration)
LockAccount(id, duration) ==
    /\ users' = [users EXCEPT ![id].accountLockedUntil = now + duration]
    /\ request' = [request EXCEPT ![id] = [op |-> "LockAccount", at |-> now, duration |-> duration]]
    /\ ret' = [op |-> "LockAccount", id |-> id]
    /\ UNCHANGED now
    /\ UNCHANGED LockFrame

\* User.UnlockAccount
UnlockAccount(id) ==
    /\ users' = [users EXCEPT ![id].accountLockedUntil = Nil, ![id].failedLoginAttempts = 0]
    /\ request' = [request EXCEPT ![id] = [op |-> "UnlockAccount", at |-> now, duration |-> 0]]
    /\ ret' = [op |-> "UnlockAccount", id |-> id]
    /\ UNCHANGED now
    /\ UNCHANGED LockFrame

\* User.IncrementFailedAttempts
IncrementFailedAttempts(id) ==
    /\ users[id].failedLoginAttempts < MaxFailedAttempts
    /\ users' = [users EXCEPT ![id].failedLoginAttempts = @ + 1]
    /\ ret' = [op |-> "IncrementFailedAttempts", id |-> id]
    /\ UNCHANGED <<now, request>>
    /\ UNCHANGED LockFrame

\* User.ResetFailedAttempts
ResetFailedAttempts(id) ==
    /\ users' = [users EXCEPT ![id].failedLoginAttempts = 0]
    /\ ret' = [op |-> "ResetFailedAttempts", id |-> id]
    /\ UNCHANGED <<now, request>>
    /\ UNCHANGED LockFrame

\* User.ShouldLockAccount(maxAttempts)
CallShouldLockAccount(id, maxAttempts) ==
    /\ ret' = [op |-> "ShouldLockAccount", id |-> id,
               ok |-> users[id].failedLoginAttempts >= maxAttempts]
    /\ UNCHANGED <<now, users, request>>
    /\ UNCHANGED LockFrame

\* User.UpdateLastLogin(ip): the time and address of the login, then ResetFailedAttempts
UpdateLastLogin(id, ip) ==
    /\ users' = [users EXCEPT ![id].lastLoginAt = now, ![id].lastLoginIP = ip,
                              ![id].failedLoginAttempts = 0]
    /\ ret' = [op |-> "UpdateLastLogin", id |-> id]
    /\ UNCHANGED <<now, request>>
    /\ UNCHANGED LockFrame

\* User.UpdatePassword(newPassword): the bcrypt hash of the new password, the time of
\* the change, and must_change_password cleared
UpdatePassword(id, newPassword) ==
    /\ users' = [users EXCEPT ![id].password = GenerateFromPassword(newPassword),
                              ![id].passwordChangedAt = now,
                              ![id].mustChangePassword = FALSE]
    /\ ret' = [op |-> "UpdatePassword", id |-> id, err |-> ""]
    /\ UNCHANGED <<now, request>>
    /\ UNCHANGED LockFrame

\* User.SetMustChangePassword: the next login has to set a new password
SetMustChangePassword(id) ==
    /\ users' = [users EXCEPT ![id].mustChangePassword = TRUE]
    /\ ret' = [op |-> "SetMustChangePassword", id |-> id]
    /\ UNCHANGED <<now, request>>
    /\ UNCHANGED LockFrame

\* the clock advances between two calls on user objects
TickLock ==
    /\ now < MaxTime
    /\ now' = now + 1
    /\ UNCHANGED <<users, request, ret>>
    /\ UNCHANGED LockFrame

\* the user that logs in and sets a new password between the lock calls
LoginUser == 1

InitLock ==
    /\ now = 0
    /\ users = RegisteredUsers
    /\ request = [id \in UserIDs |-> NoLockCall]
    /\ ret = NoRet
    /\ NoOTP /\ NoSessions /\ NoLogins /\ NoTokens
    /\ NoLimiter

NextLock ==
    \/ \E id \in UserIDs : CallIsAccountLocked(id)
    \/ \E id \in UserIDs, d \in Durations : LockAccount(id, d)
    \/ \E id \in UserIDs : UnlockAccount(id)
    \/ \E id \in UserIDs : IncrementFailedAttempts(id)
    \/ \E id \in UserIDs : ResetFailedAttempts(id)
    \/ \E id \in UserIDs : CallShouldLockAccount(id, MaxLoginAttempts)
    \/ UpdateLastLogin(LoginUser, ClientIP)
    \/ UpdatePassword(LoginUser, "admin123")
    \/ SetMustChangePassword(LoginUser)
    \/ TickLock

SpecLock == InitLock /\ [][NextLock]_vars

\* C23: IsAccountLocked is true exactly while the last lock call on the user is a
\* LockAccount(d) made less than d ago: the lock ends by itself once d has elapsed,
\* and after UnlockAccount the user is unlocked at once; what a call of
\* IsAccountLocked returns is true exactly when lock-until is set and still ahead.
C23_LockExpiresByItself ==
    /\ [](\A id \in UserIDs :
             IsAccountLocked(users[id]) <=>
                 /\ request[id].op = "LockAccount"
                 /\ now - request[id].at < request[id].duration)
    /\ [][\A id \in UserIDs :
             CallIsAccountLocked(id) =>
                 (ret'.ok <=> (/\ users[id].accountLockedUntil # Nil
                               /\ now < users[id].accountLockedUntil))]_vars

\* C23 witness: IsAccountLocked has just returned false for a user whose lock, set by
\* LockAccount with a positive duration, has run out with no unlock call
C23_Witness ==
    /\ ret.op = "IsAccountLocked"
    /\ ~ret.ok
    /\ request[ret.id].op = "LockAccount"
    /\ request[ret.id].duration > 0
    /\ users[ret.id].accountLockedUntil = now
----------------------------------------------------------------------------
(* TokenBucket and RateLimiter: middleware/advanced.go.  Each request is     *)
(* served by its own goroutine; a goroutine's position and local variables   *)
(* are its entry of workers.  TryConsume runs statement by statement; what   *)
(* keeps the statements of two calls apart is the bucket's mutex.            *)

\* min(a, b)
min(a, b) == IF a < b THEN a ELSE b

\* NewTokenBucket(capacity, refillRate); mutex = 0 is the unlocked sync.Mutex
NewTokenBucket(capacity, refillRate) ==
    [capacity |-> capacity, tokens |-> capacity, refillRate |-> refillRate,
     lastRefill |-> now, mutex |-> 0]

\* a goroutine that is serving no request
IdleCaller ==
    [pc |-> "idle", key |-> "", bucket |-> 0, t |-> 0, available |-> 0, ok |-> FALSE,
     requests |-> <<>>]

\* a goroutine calls TryConsume on the bucket
CallTryConsume(w, b) ==
    /\ workers[w].pc = "idle"
    /\ workers' = [workers EXCEPT ![w] = [IdleCaller EXCEPT !.pc = "lock", !.bucket = b]]
    /\ UNCHANGED <<now, ret>>
    /\ UNCHANGED LimiterVars
    /\ UNCHANGED LimiterFrame

\* tb.mutex.Lock() that does not wait for the holder of the mutex
LockWithoutWaiting(w) ==
    /\ workers[w].pc = "lock"
    /\ tokenBuckets' = [tokenBuckets EXCEPT ![workers[w].bucket].mutex = w]
    /\ workers' = [workers EXCEPT ![w].pc = "refill"]
    /\ UNCHANGED <<now, ret, buckets, clientRequests, admitted>>
    /\ UNCHANGED LimiterFrame

\* tb.mutex.Lock()
Lock(w) ==
    /\ workers[w].pc = "lock"
    /\ tokenBuckets[workers[w].bucket].mutex = 0
    /\ tokenBuckets' = [tokenBuckets EXCEPT ![workers[w].bucket].mutex = w]
    /\ workers' = [workers EXCEPT ![w].pc = "refill"]
    /\ UNCHANGED <<now, ret, buckets, clientRequests, admitted>>
    /\ UNCHANGED LimiterFrame

\* now := time.Now(); the lazy refill: tokensToAdd := int(elapsed / tb.refillRate)
Refill(w) ==
    LET b == workers[w].bucket
        tb == tokenBuckets[b]
        tokensToAdd == (now - tb.lastRefill) \div tb.refillRate
        refilled == IF tokensToAdd > 0
                    THEN [tb EXCEPT !.tokens = min(tb.capacity, tb.tokens + tokensToAdd),
                                    !.lastRefill = now]
                    ELSE tb
    IN /\ workers[w].pc = "refill"
       /\ tokenBuckets' = [tokenBuckets EXCEPT ![b] = refilled]
       /\ workers' = [workers EXCEPT ![w].pc = "check", ![w].t = now,
                                     ![w].available = refilled.tokens]
       /\ UNCHANGED <<now, ret, buckets, clientRequests, admitted>>
       /\ UNCHANGED LimiterFrame

\* if tb.tokens > 0
CheckTokens(w) ==
    /\ workers[w].pc = "check"
    /\ workers' = [workers EXCEPT ![w].pc =
                      IF tokenBuckets[workers[w].bucket].tokens > 0 THEN "dec" ELSE "unlock"]
    /\ UNCHANGED <<now, ret>>
    /\ UNCHANGED LimiterVars
    /\ UNCHANGED LimiterFrame

\* tb.tokens--; return true
Decrement(w) ==
    /\ workers[w].pc = "dec"
    /\ tokenBuckets' = [tokenBuckets EXCEPT ![workers[w].bucket].tokens = @ - 1]
    /\ workers' = [workers EXCEPT ![w].pc = "unlock", ![w].ok = TRUE]
    /\ UNCHANGED <<now, ret, buckets, clientRequests, admitted>>
    /\ UNCHANGED LimiterFrame

\* the deferred tb.mutex.Unlock(); TryConsume returns
Unlock(w) ==
    /\ workers[w].pc = "unlock"
    /\ tokenBuckets' = [tokenBuckets EXCEPT ![workers[w].bucket].mutex = 0]
    /\ workers' = [workers EXCEPT ![w].pc = "done"]
    /\ ret' = [op |-> "TryConsume", ok |-> workers[w].ok]
    /\ UNCHANGED <<now, buckets, clientRequests, admitted>>
    /\ UNCHANGED LimiterFrame

\* the caller of TryConsume goes on
Return(w) ==
    /\ workers[w].pc = "done"
    /\ workers' = [workers EXCEPT ![w] = IdleCaller]
    /\ UNCHANGED <<now, ret>>
    /\ UNCHANGED LimiterVars
    /\ UNCHANGED LimiterFrame

\* the clock advances while requests are being served
TickLimiter ==
    /\ now < MaxTime
    /\ now' = now + 1
    /\ UNCHANGED <<ret, workers>>
    /\ UNCHANGED LimiterVars
    /\ UNCHANGED LimiterFrame

\* one bucket, just built, shared by all goroutines
InitBucket ==
    /\ now = 0
    /\ users = <<>>
    /\ ret = NoRet
    /\ variant = "table" /\ emailVerifications = <<>>
    /\ workers = [w \in Workers |-> IdleCaller]
    /\ tokenBuckets = <<NewTokenBucket(BurstSize, RefillRate)>>
    /\ buckets = <<>> /\ clientRequests = <<>> /\ admitted = <<>>
    /\ NoSessions /\ NoLogins /\ NoTokens /\ NoRequest

NextBucket ==
    \/ \E w \in Workers :
          \/ CallTryConsume(w, 1)
          \/ Lock(w)
          \/ Refill(w)
          \/ CheckTokens(w)
          \/ Decrement(w)
          \/ Unlock(w)
          \/ Return(w)
    \/ TickLimiter

SpecBucket == InitBucket /\ [][NextBucket]_vars

\* C25: whatever the concurrent callers do, the tokens of a bucket stay within
\* 0..capacity, and a TryConsume call returns true exactly when, after its lazy
\* refill, at least one token was there; it then has taken exactly one token, and a
\* call that returns false has taken none.
C25_TokenBucket ==
    /\ [](\A b \in DOMAIN tokenBuckets :
             /\ 0 <= tokenBuckets[b].tokens
             /\ tokenBuckets[b].tokens <= tokenBuckets[b].capacity)
    /\ [][\A w \in Workers :
             Unlock(w) =>
                 /\ ret'.ok <=> workers[w].available >= 1
                 /\ tokenBuckets'[workers[w].bucket].tokens =
                        workers[w].available - (IF ret'.ok THEN 1 ELSE 0)]_vars

\* C25 witness: with two calls in flight, one has returned false on the empty bucket at
\* a time when the bucket had been refilled lazily before and been emptied again
C25_Witness ==
    /\ ret = [op |-> "TryConsume", ok |-> FALSE]
    /\ tokenBuckets[1].tokens = 0
    /\ tokenBuckets[1].lastRefill > 0
    /\ \A w \in Workers : workers[w].pc # "idle"
----------------------------------------------------------------------------
(* RateLimiter: the handler built over the buckets map and its RWMutex *)

\* the keys config.KeyGenerator yields: the IP address of one client
RateKeys == {"192.0.2.1"}

\* URL paths, character by character: config.SkipPaths and the paths of requests
SkipPaths == {<<"/", "h">>}
RequestPaths == {<<"/", "h">>, <<"/", "h", "z">>, <<"/", "a">>}

\* strings.HasPrefix(s, prefix)
HasPrefix(s, prefix) == Len(prefix) <= Len(s) /\ SubSeq(s, 1, Len(prefix)) = prefix

\* a request arrives: on a path under one of config.SkipPaths it is passed on at once,
\* otherwise key := config.KeyGenerator(c)
LimitRequest(w, path, key) ==
    /\ workers[w].pc = "idle"
    /\ IF \E skipPath \in SkipPaths : HasPrefix(path, skipPath)
       THEN /\ ret' = [op |-> "RateLimiter", key |-> "", status |-> 200, next |-> TRUE]
            /\ UNCHANGED workers
       ELSE /\ workers' = [workers EXCEPT ![w] =
                              [IdleCaller EXCEPT !.pc = "lookup", !.key = key]]
            /\ UNCHANGED ret
    /\ UNCHANGED now
    /\ UNCHANGED LimiterVars
    /\ UNCHANGED LimiterFrame

\* bucketsLock.RLock(); bucket, exists := buckets[key]; bucketsLock.RUnlock()
Lookup(w) ==
    /\ workers[w].pc = "lookup"
    /\ workers' = [workers EXCEPT ![w] =
           IF workers[w].key \in DOMAIN buckets
           THEN [@ EXCEPT !.pc = "lock", !.bucket = buckets[workers[w].key]]
           ELSE [@ EXCEPT !.pc = "create"]]
    /\ UNCHANGED <<now, ret>>
    /\ UNCHANGED LimiterVars
    /\ UNCHANGED LimiterFrame

\* if !exists: bucket = NewTokenBucket(...); bucketsLock.Lock(); buckets[key] = bucket;
\* bucketsLock.Unlock()
CreateBucket(w) ==
    /\ workers[w].pc = "create"
    /\ tokenBuckets' = Append(tokenBuckets, NewTokenBucket(BurstSize, RefillRate))
    /\ buckets' = [k \in DOMAIN buckets \cup {workers[w].key} |->
                      IF k = workers[w].key THEN Len(tokenBuckets) + 1 ELSE buckets[k]]
    /\ workers' = [workers EXCEPT ![w].pc = "lock", ![w].bucket = Len(tokenBuckets) + 1]
    /\ UNCHANGED <<now, ret, clientRequests, admitted>>
    /\ UNCHANGED LimiterFrame

\* after bucket.TryConsume(): 429 and c.Abort() on false, c.Next() on true
Respond(w) ==
    /\ workers[w].pc = "done"
    /\ admitted' = IF workers[w].ok
                   THEN [admitted EXCEPT ![workers[w].key][workers[w].t] = @ + 1]
                   ELSE admitted
    /\ ret' = [op |-> "RateLimiter", key |-> workers[w].key,
               status |-> IF workers[w].ok THEN 200 ELSE 429, next |-> workers[w].ok]
    /\ workers' = [workers EXCEPT ![w] = IdleCaller]
    /\ UNCHANGED <<now, tokenBuckets, buckets, clientRequests>>
    /\ UNCHANGED LimiterFrame

InitRateLimiter ==
    /\ now = 0
    /\ users = <<>>
    /\ ret = NoRet
    /\ variant = "table" /\ emailVerifications = <<>>
    /\ workers = [w \in Workers |-> IdleCaller]
    /\ tokenBuckets = <<>>
    /\ buckets = <<>>
    /\ clientRequests = <<>>
    /\ admitted = [k \in RateKeys |-> [t \in Times |-> 0]]
    /\ NoSessions /\ NoLogins /\ NoTokens /\ NoRequest

NextRateLimiter ==
    \/ \E w \in Workers :
          \/ \E path \in RequestPaths, key \in RateKeys : LimitRequest(w, path, key)
          \/ Lookup(w)
          \/ CreateBucket(w)
          \/ Lock(w)
          \/ Refill(w)
          \/ CheckTokens(w)
          \/ Decrement(w)
          \/ Unlock(w)
          \/ Respond(w)
    \/ TickLimiter

SpecRateLimiter == InitRateLimiter /\ [][NextRateLimiter]_vars

\* C29: the goroutines serving requests with the same key all work on one bucket, the
\* one the map holds for the key, and so the requests of a key let through with the
\* same clock reading never number more than BurstSize.
C29_OneBucketPerKey ==
    /\ \A w \in Workers :
          workers[w].bucket # 0 => workers[w].bucket = buckets[workers[w].key]
    /\ \A k \in RateKeys, t \in Times : admitted[k][t] <= BurstSize
----------------------------------------------------------------------------
(* RateLimitMiddleware by itself: the requests of one client IP, served by   *)
(* concurrent goroutines, on the one route that has no other middleware.     *)

\* a route with no middleware of its own
OpenRoute == "POST /api/v1/auth/login"

InitRateLimit ==
    /\ now = 0
    /\ users = <<>>
    /\ ret = NoRet
    /\ variant = "table" /\ emailVerifications = <<>>
    /\ workers = [w \in Workers |-> NoUserCall]
    /\ tokenBuckets = <<>>
    /\ buckets = <<>>
    /\ clientRequests = RequestsOnRecord
    /\ admitted = <<>>
    /\ NoSessions /\ NoLogins /\ NoTokens /\ NoRequest

NextRateLimit ==
    \/ \E w \in Workers :
          \/ \E clientIP \in RateKeys : ClientSends /\ RateLimitRequest(w, clientIP)
          \/ CleanOldRequests(w)
          \/ StoreValidRequests(w)
          \/ CheckLimit(w)
          \/ AppendRequest(w)
          \/ AddRequest(w)
          \/ ConcurrentMapWrites(w)
          \/ ServeHTTP(w, OpenRoute, <<>>, <<>>, NoBody)
    \/ TickLimiter

SpecRateLimit == InitRateLimit /\ [][NextRateLimit]_vars

\* the requests of a client IP that were let through with the clock reading t and are
\* still on record: every request let through is appended with its clock reading
AdmittedAt(clientIP, t) == RequestsOf(clientIP)[t]

\* C26: of the requests of one client IP that arrive within one minute,
\* RateLimitMiddleware lets at most 100 through, also when it serves requests of the
\* same IP concurrently.
C26_AtMostLimitPerWindow ==
    \A k \in RateKeys, t \in Times : AdmittedAt(k, t) <= RateLimit
----------------------------------------------------------------------------
(* Requests through the router to UserHandler.Register and                    *)
(* UserHandler.UpdateUser: ServeHTTP takes the request through the middleware *)
(* of its route, and the handler that follows runs only when none of them     *)
(* aborted.  The handler binds and validates the body and makes the first     *)
(* statement of the service call; the call goes on in the request worker.     *)

\* the routes that end in Register or UpdateUser
AccountRoutes == {route \in Routes : RouteHandler(route) \in {"Register", "UpdateUser"}}

\* len(s) of the strings request bodies carry
StringLength(s) ==
    CASE s = "" -> 0
      [] s = "pw2" -> 3
      [] s = "user" -> 4
      [] s = "User" -> 4
      [] s = "admin" -> 5
      [] s = "Admin" -> 5
      [] s = "guest" -> 5
      [] s = "admin123" -> 8
      [] s = "user@example.com" -> 16
      [] s = "admin@example.com" -> 17

\* the JSON bodies of registration requests: well-formed ones, one with a password
\* of three characters, one without first_name, one with a role that is none
RegisterBodies ==
    LET wellFormed == {[email |-> e, username |-> u, password |-> "admin123",
                        firstName |-> "Admin", lastName |-> "User", role |-> r] :
                          e \in Emails, u \in Usernames, r \in {"", RoleAdmin}}
        one == [email |-> "admin@example.com", username |-> "admin", password |-> "admin123",
                firstName |-> "Admin", lastName |-> "User", role |-> RoleAdmin]
    IN wellFormed \cup {[one EXCEPT !.password = "pw2"],
                        [one EXCEPT !.firstName = ""],
                        [one EXCEPT !.role = "guest"]}

\* validate:"required,email" on the addresses the bodies carry
IsEmail(s) == s \in Emails

\* ValidateStruct on a UserCreateRequest finds no error
ValidCreateRequest(body) ==
    /\ body.email # "" /\ IsEmail(body.email)
    /\ StringLength(body.username) >= 3 /\ StringLength(body.username) <= 50
    /\ StringLength(body.password) >= 6
    /\ StringLength(body.firstName) >= 1 /\ StringLength(body.firstName) <= 50
    /\ StringLength(body.lastName) >= 1 /\ StringLength(body.lastName) <= 50
    /\ body.role = "" \/ body.role \in Roles

\* the JSON bodies of update requests: a role, an is_active flag, nothing, or a role
\* that is none
UpdateBodies ==
    {req \in UpdateRequests : req.email = {} /\ req.username = {}}
    \cup {[email |-> {}, username |-> {}, role |-> {"guest"}, isActive |-> {}]}

\* ValidateStruct on a UserUpdateRequest finds no error
ValidUpdateRequest(body) ==
    /\ body.email = {} \/ IsEmail(Deref(body.email))
    /\ body.username = {} \/ (/\ StringLength(Deref(body.username)) >= 3
                              /\ StringLength(Deref(body.username)) <= 50)
    /\ body.role = {} \/ Deref(body.role) \in Roles

RouteBodies(route) == IF RouteHandler(route) = "Register" THEN RegisterBodies ELSE UpdateBodies

\* the Authorization header of the request goroutine w serves: none, or the token
\* the client held when it sent the request
ClientHeaders(w) ==
    {<<>>} \cup (IF workers[w].token = <<>> THEN {} ELSE {BearerHeader(workers[w].token)})

\* the client keeps the token of a successful registration for its next requests
KeepToken ==
    /\ ret.op = "Register"
    /\ ret.err = ""
    /\ wire' = ret.token
    /\ UNCHANGED <<now, variant, users, emailVerifications, ret, workers, userSessions, revoked,
                   failedLogins, twoFactorAuths, jwtExpiry, request>>
    /\ UNCHANGED LimiterVars

\* UserHandler.Register, reached through the router: BindAndValidate, then the call
HandleRegister(w) ==
    /\ ret.op = "ServeHTTP"
    /\ ret.handler = "Register"
    /\ workers[w].pc = "idle"
    /\ IF ~ValidCreateRequest(request.body)
       THEN /\ ret' = [op |-> "Register", err |-> "Validation failed", token |-> <<>>,
                       user |-> NoUser]
            /\ UNCHANGED <<now, users, failedLogins, twoFactorAuths, workers>>
            /\ UNCHANGED UserFrame
       ELSE Register(w, request.body.email, request.body.username, request.body.password,
                     request.body.role)

\* UserHandler.UpdateUser, reached through the router: the id of the path, then
\* BindAndValidate, then the call
HandleUpdateUser(w) ==
    /\ ret.op = "ServeHTTP"
    /\ ret.handler = "UpdateUser"
    /\ workers[w].pc = "idle"
    /\ IF ParseUint(request.idParam) = Nil \/ ~ValidUpdateRequest(request.body)
       THEN /\ ret' = UpdateFailed(0, IF ParseUint(request.idParam) = Nil
                                      THEN "Invalid user ID" ELSE "Validation failed")
            /\ UNCHANGED <<now, users, failedLogins, twoFactorAuths, workers>>
            /\ UNCHANGED UserFrame
       ELSE UpdateUser(w, ParseUint(request.idParam), request.body)

\* the service has just started: the table is empty and the rate limit holds no
\* request of any client
InitRoutes ==
    /\ now = 0
    /\ users = <<>>
    /\ ret = NoRet
    /\ failedLogins = [i \in UserIDs |-> NoFailures]
    /\ twoFactorAuths = <<>>
    /\ jwtExpiry = MaxExpiry
    /\ wire = <<>>
    /\ variant = "table" /\ emailVerifications = <<>>
    /\ workers = [w \in UserWorkers |-> NoUserCall]
    /\ tokenBuckets = <<>> /\ buckets = <<>> /\ admitted = <<>>
    /\ clientRequests = <<>>
    /\ NoSessions /\ NoRequest

\* the handler has read the request it was given; request is free for the next one
HandlerStarted ==
    /\ ret.op # "ServeHTTP"
    /\ request # <<>>
    /\ request' = <<>>
    /\ UNCHANGED <<ret, workers, LimiterVars>>
    /\ UNCHANGED GuardFrame

\* Seed runs at startup, before the first request.  A request that has passed the
\* middleware of its route goes to its handler, and a request refused to the client,
\* before the goroutines go on.
NextRoutes ==
    \/ \E w \in UserWorkers :
          \/ ret = NoRet /\ Seed(w)
          \/ NoRequest /\ CreateAdmin(w)
          \/ HandleRegister(w)
          \/ NoRequest /\ CreateUser(w)
          \/ HandleUpdateUser(w)
          \/ NoRequest /\ Updates(w)
          \/ NoRequest /\ FetchUpdated(w)
          \/ NoRequest /\ ClientSends /\ RateLimitRequest(w, ClientIP)
          \/ NoRequest /\ CleanOldRequests(w)
          \/ NoRequest /\ StoreValidRequests(w)
          \/ NoRequest /\ CheckLimit(w)
          \/ NoRequest /\ AppendRequest(w)
          \/ NoRequest /\ AddRequest(w)
          \/ NoRequest /\ ConcurrentMapWrites(w)
          \/ /\ NoRequest
             /\ workers[w].pc = "next"
             /\ \E route \in AccountRoutes, header \in ClientHeaders(w) :
                   \E idParam \in IDParams(route), body \in RouteBodies(route) :
                       ServeHTTP(w, route, header, idParam, body)
    \/ NoRequest /\ KeepToken
    \/ ret.op = "ServeHTTP" /\ ~ret.next /\ TakeResponse
    \/ HandlerStarted

SpecRoutes == InitRoutes /\ [][NextRoutes]_vars

\* the identities whose role is Admin
AdminIDs == {i \in LiveUsers : users[i].role = RoleAdmin}

\* C27: a Register or UpdateUser request that the route guards let through to its
\* handler without an Admin token adds no identity to those whose role is Admin.
C27_AdminOnlyThroughAdmin ==
    [][\A w \in UserWorkers :
          (/\ CreateUser(w) \/ Updates(w)
           /\ workers[w].caller # <<>>
           /\ workers[w].caller.userRole # ContextValue(RoleAdmin)) =>
              AdminIDs' \subseteq AdminIDs]_vars

----------------------------------------------------------------------------
(* The life of a bearer token beside the life of its identity: UserService   *)
(* registers, logs in, deactivates and deletes; JWTService refreshes.        *)

\* the client keeps the token of a successful login for its next requests
KeepLoginToken ==
    /\ ret.op = "Login"
    /\ ret.err = ""
    /\ wire' = ret.token
    /\ UNCHANGED <<now, variant, users, emailVerifications, ret, workers, userSessions, revoked,
                   failedLogins, twoFactorAuths, jwtExpiry, request>>
    /\ UNCHANGED LimiterVars

NextTokenLifecycle ==
    \/ \E w \in UserWorkers :
          \/ \E e \in Emails : Register(w, e, "user", "admin123", "")
          \/ CreateUser(w)
          \/ \E id \in UserIDs, req \in ActivationRequests : UpdateUser(w, id, req)
          \/ Updates(w)
          \/ FetchUpdated(w)
          \/ \E id \in UserIDs : DeleteUser(w, id)
          \/ SoftDelete(w)
    \/ \E e \in Emails : Login(e, "admin123")
    \/ KeepToken
    \/ KeepLoginToken
    \/ RefreshToken
    \/ Tick

SpecTokenLifecycle == Init /\ [][NextTokenLifecycle]_vars

\* the identity has been deactivated or deleted
DeactivatedOrDeleted(id) ==
    id \in DOMAIN users /\ (users[id].deleted \/ ~users[id].isActive)

\* C30: after an identity has been deactivated or deleted no new bearer token is
\* issued for it: a Login or a RefreshToken that returns a token returns it for an
\* identity that is neither deactivated nor deleted.
C30_NoTokenAfterDeactivation ==
    [][((RefreshToken \/ \E e \in Emails, p \in Passwords : Login(e, p))
        /\ ret'.err = "") =>
           ~DeactivatedOrDeleted(ret'.token.claims.userID)]_vars
====
